---- MODULE Spec2Model ----
\* Smart Vision Guide (src/main.py and src/handlers/*): the session controller,
\* its worker loops, the speech output and the command router, as a state
\* machine.  Strings that the code inspects (transcripts, trigger phrases) are
\* sequences of one-character strings, so that lower(), strip() and the
\* substring test `phrase in transcript_lower` are computed, not assumed.
EXTENDS Integers, Sequences, FiniteSets, TLC

VARIABLES
    running,            \* SmartVisionGuide.running
    system_active,      \* SmartVisionGuide.system_active
    guidance_active,    \* SmartVisionGuide.guidance_active
    chat_active,        \* SmartVisionGuide.chat_active
    events,             \* SmartVisionGuide.events: name -> is_set()
    voice_running,      \* VoiceHandler.running
    gpio_initialized,   \* GPIOHandler.initialized
    gpio_open,          \* the lgpio chip handle is open (not yet gpiochip_close'd)
    exit_status,        \* "alive", "exit0" (sys.exit(0) in the main thread), "crash"
    is_speaking,        \* AudioHandler.is_speaking
    current_process,    \* AudioHandler.current_process: owner of the Popen object, or NoProcess
    interrupt_flag,     \* AudioHandler.interrupt_flag.is_set()
    proc,               \* per thread: the player subprocess it launched
    orphan,             \* a player subprocess runs that no thread polls any more
    pc,                 \* per thread: position in its code
    ret,                \* per thread: where a blocking speak() returns to
    mode,               \* main thread: which call of shutdown() it is in
    done,               \* per shutdown runner: the steps of its current shutdown() run
    utt,                \* per recognition task: the transcript it recognized (index)
    cmd,                \* per recognition task: parse_command's command_type
    said,               \* per recognition task: the message of its latest speak()
    heard,              \* number of utterances recognized so far
    p_transcript,       \* router check: the transcript under test
    p_result,           \* router check: parse_command's return value, or "pending"
    cancelled,          \* the loop threads that were live when stop_guidance() last
                        \* cleared the guidance event, and have not ended since
    cad,                \* timed view of a guidance loop: clock and locals of _guidance_loop
    usl,                \* timed view of an ultrasonic loop: clock and locals of _ultrasonic_loop
    svc                 \* camera and vision service: GeminiHandler.initialized, the camera
                        \* devices open, and per recognition task the frame it captured,
                        \* the requests it posted and the text it got for its command

vars == << running, system_active, guidance_active, chat_active, events,
           voice_running, gpio_initialized, gpio_open, exit_status,
           is_speaking, current_process, interrupt_flag, proc, orphan,
           pc, ret, mode, done, utt, cmd, said, heard,
           p_transcript, p_result, cancelled, cad, usl, svc >>

ctlVars == << running, system_active, guidance_active, chat_active, events,
              voice_running, gpio_initialized, gpio_open, exit_status >>
audioVars == << is_speaking, current_process, interrupt_flag, proc, orphan >>
threadVars == << pc, ret, mode, done, utt, cmd, said, heard >>
parseVars == << p_transcript, p_result >>
timeVars == << cad, usl >>

-----------------------------------------------------------------------------
\* Strings

UpperAlpha ==
    <<"A","B","C","D","E","F","G","H","I","J","K","L","M",
      "N","O","P","Q","R","S","T","U","V","W","X","Y","Z">>
LowerAlpha ==
    <<"a","b","c","d","e","f","g","h","i","j","k","l","m",
      "n","o","p","q","r","s","t","u","v","w","x","y","z">>

\* str.lower() on one character
LowerChar(c) ==
    IF \E i \in 1..Len(UpperAlpha) : UpperAlpha[i] = c
    THEN LowerAlpha[CHOOSE i \in 1..Len(UpperAlpha) : UpperAlpha[i] = c]
    ELSE c

\* str.lower()
Lower(s) == [i \in 1..Len(s) |-> LowerChar(s[i])]

IsSpace(c) == c = " "

\* str.strip(): drop leading and trailing whitespace
RECURSIVE LStrip(_)
LStrip(s) ==
    IF s # <<>> /\ IsSpace(Head(s)) THEN LStrip(Tail(s)) ELSE s
RECURSIVE RStrip(_)
RStrip(s) ==
    IF s # <<>> /\ IsSpace(s[Len(s)]) THEN RStrip(SubSeq(s, 1, Len(s) - 1)) ELSE s
Strip(s) == RStrip(LStrip(s))

\* s starts with p
RECURSIVE StartsWith(_, _)
StartsWith(s, p) ==
    IF p = <<>> THEN TRUE
    ELSE IF s = <<>> THEN FALSE
    ELSE Head(s) = Head(p) /\ StartsWith(Tail(s), Tail(p))

\* Python's `p in s` on strings: scan the start positions left to right
RECURSIVE PyIn(_, _)
PyIn(p, s) ==
    IF StartsWith(s, p) THEN TRUE
    ELSE IF s = <<>> THEN FALSE
    ELSE PyIn(p, Tail(s))

-----------------------------------------------------------------------------
\* config/settings.py: COMMANDS, in declaration order (a dict keeps it)

COMMANDS ==
 << [kind |-> "activate",
     phrases |-> << <<"h","e","l","l","o"," ","v","i","s","i","o","n">>,
                    <<"h","e","y"," ","a","s","s","i","s","t","a","n","t">>,
                    <<"h","e","l","l","o">> >>],
    [kind |-> "guide",
     phrases |-> << <<"g","u","i","d","e"," ","m","e">>,
                    <<"s","t","a","r","t"," ","g","u","i","d","a","n","c","e">>,
                    <<"n","a","v","i","g","a","t","e">>,
                    <<"h","e","l","p"," ","m","e"," ","w","a","l","k">> >>],
    [kind |-> "stop_guide",
     phrases |-> << <<"s","t","o","p"," ","g","u","i","d","a","n","c","e">>,
                    <<"s","t","o","p"," ","g","u","i","d","i","n","g">>,
                    <<"p","a","u","s","e">> >>],
    [kind |-> "read_text",
     phrases |-> << <<"r","e","a","d"," ","t","e","x","t">>,
                    <<"r","e","a","d"," ","t","h","i","s">>,
                    <<"w","h","a","t"," ","d","o","e","s"," ","i","t"," ","s","a","y">>,
                    <<"o","c","r">> >>],
    [kind |-> "describe",
     phrases |-> << <<"d","e","s","c","r","i","b","e">>,
                    <<"w","h","a","t"," ","i","s"," ","a","r","o","u","n","d">>,
                    <<"w","h","a","t"," ","d","o"," ","y","o","u"," ","s","e","e">>,
                    <<"s","c","e","n","e">> >>],
    [kind |-> "exit",
     phrases |-> << <<"s","y","s","t","e","m"," ","e","x","i","t">>,
                    <<"s","h","u","t","d","o","w","n">>,
                    <<"g","o","o","d","b","y","e">>,
                    <<"b","y","e">> >>],
    [kind |-> "chat",
     phrases |-> << <<"c","h","a","t">>,
                    <<"t","a","l","k"," ","t","o"," ","m","e">>,
                    <<"c","o","n","v","e","r","s","a","t","i","o","n">> >>],
    [kind |-> "exit_chat",
     phrases |-> << <<"e","x","i","t"," ","c","h","a","t">>,
                    <<"s","t","o","p"," ","c","h","a","t">>,
                    <<"e","n","d"," ","c","o","n","v","e","r","s","a","t","i","o","n">> >>] >>

-----------------------------------------------------------------------------
\* VoiceHandler.parse_command

\* `for phrase in phrases: if phrase in transcript_lower` from phrase j on
RECURSIVE AnyPhraseFrom(_, _, _)
AnyPhraseFrom(phrases, j, transcript_lower) ==
    IF j > Len(phrases) THEN FALSE
    ELSE IF PyIn(phrases[j], transcript_lower) THEN TRUE
    ELSE AnyPhraseFrom(phrases, j + 1, transcript_lower)

\* `for command_type, phrases in COMMANDS.items()` from entry i on: the first
\* entry with a matching phrase returns; falling off the end returns None
RECURSIVE ScanCommands(_, _)
ScanCommands(i, transcript_lower) ==
    IF i > Len(COMMANDS) THEN "None"
    ELSE IF AnyPhraseFrom(COMMANDS[i].phrases, 1, transcript_lower)
         THEN COMMANDS[i].kind
         ELSE ScanCommands(i + 1, transcript_lower)

\* the same rule keeping the last matching entry instead of the first
parse_command_last_match(transcript) ==
    LET t == Strip(Lower(transcript))
        m == { i \in 1..Len(COMMANDS) : AnyPhraseFrom(COMMANDS[i].phrases, 1, t) }
    IN  << IF m = {} THEN "None"
           ELSE COMMANDS[CHOOSE i \in m : \A k \in m : k <= i].kind,
           transcript >>

\* parse_command(transcript) -> (command_type, transcript)
parse_command(transcript) ==
    << ScanCommands(1, Strip(Lower(transcript))), transcript >>

-----------------------------------------------------------------------------
\* Bounds of the model, and the threads of the process

MaxHandlers == 2    \* per-utterance recognition tasks alive at once
MaxLoops == 2       \* guidance loops, and ultrasonic loops, alive at once
MaxSpeakers == 1    \* non-blocking speak() threads alive at once
MaxHeard == 2       \* utterances recognized in one run

\* AudioHandler.current_process = None
NoProcess == << "None", 0 >>
Main == << "main", 0 >>
Handlers == { << "h", i >> : i \in 1..MaxHandlers }
GLoops == { << "g", i >> : i \in 1..MaxLoops }
ULoops == { << "u", i >> : i \in 1..MaxLoops }
Speakers == { << "s", i >> : i \in 1..MaxSpeakers }
Threads == {Main} \cup Handlers \cup GLoops \cup ULoops \cup Speakers
Runners == {Main} \cup Handlers

\* the transcripts the recognizer delivers to the controller in this model
Utterances ==
    << <<"H","e","l","l","o"," ","v","i","s","i","o","n">>,
       <<"G","u","i","d","e"," ","m","e">>,
       <<"S","t","o","p"," ","g","u","i","d","a","n","c","e">>,
       <<"R","e","a","d"," ","t","e","x","t">>,
       <<"D","e","s","c","r","i","b","e">>,
       <<"C","h","a","t">>,
       <<"E","x","i","t"," ","c","h","a","t">>,
       <<"S","y","s","t","e","m"," ","e","x","i","t">>,
       <<"b","a","n","a","n","a">>,
       <<"S","t","o","p"," ","c","h","a","t">>,
       <<"E","n","d"," ","c","o","n","v","e","r","s","a","t","i","o","n">> >> 

\* command_type of each utterance, as _process_audio computes it
Parsed == [u \in 1..Len(Utterances) |-> parse_command(Utterances[u])[1]]

EventNames == {"running", "guidance", "chat"}

\* a free thread slot of a pool: the thread has ended and owns no player
Free(pool) == { t \in pool : pc[t] = "none" /\ proc[t] # "running" }
FirstFree(pool) == CHOOSE t \in Free(pool) : \A o \in Free(pool) : t[2] <= o[2]

Alive == exit_status = "alive"

-----------------------------------------------------------------------------
\* CameraHandler.capture_frame

\* what one call of capture_frame meets: a frame is read; the device does
\* not open (line 34); read() gives no frame (line 49); cv2.VideoCapture
\* raises (cap stays None); set() or read() raises with the device open
CameraOutcomes ==
    { "frame", "not_opened", "read_failed", "open_raises", "read_raises" }

\* capture_frame releasing the device only after a frame was read
capture_frame_release_on_success(c) ==
    [ frame |-> IF c = "frame" THEN "frame" ELSE "None",
      opened |-> IF c = "open_raises" THEN 0 ELSE 1,
      released |-> IF c = "frame" THEN 1 ELSE 0 ]

\* capture_frame lines 30-59: the frame returned (or None), the number of
\* VideoCapture objects created and the number released by the finally block
capture_frame(c) ==
    LET cap == IF c = "open_raises" THEN "None" ELSE "cap"
    IN  [ frame |-> IF c = "frame" THEN "frame" ELSE "None",
          opened |-> IF cap # "None" THEN 1 ELSE 0,
          released |-> IF cap # "None" THEN 1 ELSE 0 ]

-----------------------------------------------------------------------------
\* GeminiHandler: analyze_image and chat

\* the strings analyze_image and chat return instead of a reply
NoImageCaptured ==
    <<"N","o"," ","i","m","a","g","e"," ","c","a","p","t","u","r","e","d",
      ".">>
ErrorProcessingImage ==
    <<"E","r","r","o","r"," ","p","r","o","c","e","s","s","i","n","g"," ",
      "i","m","a","g","e",".">>
AnalyzeApology ==
    <<"S","o","r","r","y",","," ","I"," ","c","o","u","l","d","n","'","t",
      " ","a","n","a","l","y","z","e"," ","t","h","e"," ","s","c","e","n",
      "e","."," ","P","l","e","a","s","e"," ","t","r","y"," ","a","g","a",
      "i","n",".">>
ChatApology ==
    <<"S","o","r","r","y",","," ","I"," ","c","o","u","l","d","n","'","t",
      " ","p","r","o","c","e","s","s"," ","t","h","a","t","."," ","P","l",
      "e","a","s","e"," ","t","r","y"," ","a","g","a","i","n",".">>

\* texts the service can reply with, as _extract_text_from_response returns
\* them (stripped, not empty)
ReplyTexts ==
    { <<"C","h","a","i","r"," ","o","n"," ","y","o","u","r"," ","l","e","f",
        "t",".">>,
      <<"N","o"," ","o","b","s","t","a","c","l","e"," ","a","h","e","a","d",
        ".">>,
      <<"C","l","e","a","r",","," ","n","o"," ","o","b","s","t","a","c","l",
        "e","s",".">>,
      <<"*","*">>,
      <<"*"," ","*">>,
      <<"O","K">>,
      <<"N","O"," ","O","B","S","T","A","C","L","E">> }

\* what one request meets: the frame cannot be encoded as JPEG (line 143 /
\* 161), the request fails or is refused (_post_chat returns None), the
\* response holds no text, or it holds a text
ServiceReplies ==
    { [kind |-> k, text |-> << >>] : k \in {"encode_error", "request_error", "no_text"} }
    \cup { [kind |-> "text", text |-> t] : t \in ReplyTexts }

\* lines 153 and 169: the three replace() calls dropping the asterisk, the
\* hash and the grave accent (written "grave" here)
Cleanup(text) == SelectSeq(text, LAMBDA c : c \notin {"*", "#", "grave"})

\* analyze_image(frame, mode=m) lines 136-153: the string returned, the
\* prompt selected at line 140, and the requests posted to the service, each
\* with its prompt and whether an image is attached
analyze_image(frame, m, r) ==
    IF frame = "None"
    THEN [ text |-> NoImageCaptured, prompt |-> "none", posts |-> << >> ]
    ELSE IF r.kind = "encode_error"
    THEN [ text |-> ErrorProcessingImage, prompt |-> m, posts |-> << >> ]
    ELSE [ text |-> IF r.kind = "text" THEN Cleanup(r.text) ELSE AnalyzeApology,
           prompt |-> m,
           posts |-> << [prompt |-> m, image |-> TRUE] >> ]

\* chat lines 155-169: the string returned, the prompt and the requests posted
chat(context_frame, r) ==
    [ text |-> IF r.kind = "text" THEN Cleanup(r.text) ELSE ChatApology,
      prompt |-> "chat",
      posts |-> << [prompt |-> "chat",
                    image |-> (context_frame # "None" /\ r.kind # "encode_error")] >> ]

\* lines 171-178
get_navigation_guidance(frame, r) == analyze_image(frame, "navigation", r)

\* read_text asking for the navigation analysis
read_text_as_navigation(frame, r) == analyze_image(frame, "navigation", r)

read_text(frame, r) == analyze_image(frame, "ocr", r)
describe_scene(frame, r) == analyze_image(frame, "describe", r)

\* _initialize lines 22-40: the value of self.initialized for the key found
\* in the environment; only an unset key or the placeholder of settings.py
\* line 20 leaves it False, a key the service rejects does not
ApiKeys == {"unset", "placeholder", "rejected", "valid"}
GeminiInitialize(key) == key \notin {"unset", "placeholder"}

\* a recognition task that has used neither the camera nor the service
NoOp == [ frame |-> "none", asked |-> << >>, posts |-> << >>, text |-> << >> ]

\* the replies met by the commands of the recognition tasks
HandlerReplies ==
    { r \in ServiceReplies :
        r.kind # "text" \/ r.text \in { <<"*","*">>, <<"O","K">> } }

\* the replies a request can get: without a configured key the service
\* refuses every request (_post_chat lines 84-90 return None)
RepliesFor(initialized) ==
    { r \in HandlerReplies :
        initialized \/ r.kind \in {"encode_error", "request_error"} }

-----------------------------------------------------------------------------
\* AudioHandler

\* speak() lines 32-33: not text or not text.strip()
Blank(text) == Strip(text) = << >>

\* speak() without line 36: the interrupt flag is left as it was
SpeakBlockingKeepsFlag(t, r) ==
    /\ UNCHANGED interrupt_flag
    /\ is_speaking' = TRUE
    /\ pc' = [pc EXCEPT ![t] = "sp_synth"]
    /\ ret' = [ret EXCEPT ![t] = r]

\* speak(text, block=True), text not blank (lines 32-39), and _speak_sync
\* line 47 in the calling thread; r is where the caller continues
SpeakBlocking(t, r) ==
    /\ interrupt_flag' = FALSE
    /\ is_speaking' = TRUE
    /\ pc' = [pc EXCEPT ![t] = "sp_synth"]
    /\ ret' = [ret EXCEPT ![t] = r]

\* _speak_sync line 47 in a thread started by speak(text, block=False)
SpBegin(t) ==
    /\ Alive /\ pc[t] = "sp_begin"
    /\ is_speaking' = TRUE
    /\ pc' = [pc EXCEPT ![t] = "sp_synth"]
    /\ UNCHANGED << ctlVars, current_process, interrupt_flag, proc, orphan,
                    ret, mode, done, utt, cmd, said, heard, parseVars, cancelled, timeVars, svc >>

\* the ways lines 50-89 of _speak_sync can end without a player running
SpeakFailures ==
    { "synthesis_error",    \* gTTS raises: caught at line 105
      "no_temp_file",       \* line 60: return
      "no_player",          \* line 70: return
      "launch_not_found" }  \* Popen raises FileNotFoundError: line 98

\* _speak_sync lines 50-89: synthesis, player lookup, Popen.  A failure that
\* returns or is caught at line 105 goes to the finally block; a
\* FileNotFoundError enters the handler of lines 98-104, whose line 102
\* evaluates the undefined name AUDIO_TEMP_FILE: NameError leaves the
\* handler, the finally block runs and the exception leaves speak()
SpSynth(t) ==
    /\ Alive /\ pc[t] = "sp_synth"
    /\ \/ /\ proc' = [proc EXCEPT ![t] = "running"]
          /\ current_process' = t
          /\ pc' = [pc EXCEPT ![t] = "sp_poll"]
       \/ \E f \in SpeakFailures :
            /\ pc' = [pc EXCEPT ![t] = IF f = "launch_not_found"
                                       THEN "sp_raise" ELSE "sp_finally"]
            /\ UNCHANGED << proc, current_process >>
    /\ UNCHANGED << ctlVars, is_speaking, interrupt_flag, orphan,
                    ret, mode, done, utt, cmd, said, heard, parseVars, cancelled, timeVars, svc >>

\* the wait loop without the interrupt check of lines 93-95
SpPollNoInterrupt(t) ==
    /\ Alive /\ pc[t] = "sp_poll"
    /\ IF current_process = NoProcess \/ proc[current_process] # "running"
       THEN pc' = [pc EXCEPT ![t] = "sp_finally"]
       ELSE UNCHANGED pc
    /\ UNCHANGED << ctlVars, audioVars,
                    ret, mode, done, utt, cmd, said, heard, parseVars, cancelled, timeVars, svc >>

\* _speak_sync lines 92-96: one turn of the wait loop.  current_process is
\* re-read on every turn: None raises AttributeError (caught at line 105);
\* a player that has ended leaves the loop; a set interrupt flag terminates
\* the player current_process refers to and leaves the loop
SpPoll(t) ==
    /\ Alive /\ pc[t] = "sp_poll"
    /\ IF current_process = NoProcess \/ proc[current_process] # "running"
       THEN /\ pc' = [pc EXCEPT ![t] = "sp_finally"]
            /\ UNCHANGED proc
       ELSE IF interrupt_flag
       THEN /\ proc' = [proc EXCEPT ![current_process] = "ended"]
            /\ pc' = [pc EXCEPT ![t] = "sp_finally"]
       ELSE UNCHANGED << proc, pc >>
    /\ UNCHANGED << ctlVars, is_speaking, current_process, interrupt_flag, orphan,
                    ret, mode, done, utt, cmd, said, heard, parseVars, cancelled, timeVars, svc >>

\* _speak_sync lines 107-109; the player this call launched is dropped, and
\* runs on unpolled if it was not the one waited for or terminated
SpFinally(t) ==
    /\ Alive /\ pc[t] = "sp_finally"
    /\ is_speaking' = FALSE
    /\ current_process' = NoProcess
    /\ orphan' = (orphan \/ proc[t] = "running")
    /\ proc' = [proc EXCEPT ![t] = "none"]
    /\ pc' = [pc EXCEPT ![t] = ret[t]]
    /\ ret' = [ret EXCEPT ![t] = "none"]
    /\ UNCHANGED << ctlVars, interrupt_flag,
                    mode, done, utt, cmd, said, heard, parseVars, cancelled, timeVars, svc >>

\* _speak_sync lines 107-109 with the NameError of line 102 pending, and
\* where the exception goes once it has left speak(): a recognition task
\* catches it at voice_handler.py line 168 and its thread ends; a guidance
\* loop's or a speaker's thread dies of it; the main thread, whose
\* speak(startup) of line 302 is under no try, ends the process
SpRaise(t) ==
    /\ Alive /\ pc[t] = "sp_raise"
    /\ is_speaking' = FALSE
    /\ current_process' = NoProcess
    /\ ret' = [ret EXCEPT ![t] = "none"]
    /\ pc' = [pc EXCEPT ![t] = IF t = Main THEN "exited"
                               ELSE IF t \in Handlers THEN "h_ret" ELSE "none"]
    /\ exit_status' = IF t = Main THEN "crash" ELSE exit_status
    /\ cancelled' = cancelled \ {t}
    /\ UNCHANGED << running, system_active, guidance_active, chat_active, events,
                    voice_running, gpio_initialized, gpio_open,
                    interrupt_flag, proc, orphan,
                    mode, done, utt, cmd, said, heard, parseVars, timeVars, svc >>

\* the player subprocess of thread t plays to the end of its file
ProcExit(t) ==
    /\ proc[t] = "running"
    /\ proc' = [proc EXCEPT ![t] = "ended"]
    /\ UNCHANGED << ctlVars, is_speaking, current_process, interrupt_flag, orphan,
                    threadVars, parseVars, cancelled, timeVars, svc >>

\* the unpolled players play to the end of their files
OrphanExit ==
    /\ orphan
    /\ orphan' = FALSE
    /\ UNCHANGED << ctlVars, is_speaking, current_process, interrupt_flag, proc,
                    threadVars, parseVars, cancelled, timeVars, svc >>

-----------------------------------------------------------------------------
\* SmartVisionGuide.run

\* a capture_frame call: the camera devices open after it
Captured(c) == svc.handles + capture_frame(c).opened - capture_frame(c).released

\* run() lines 295-302: running, the running event, initialize() (with the
\* capture of camera.test_camera()), speak(startup)
MRun ==
    /\ Alive /\ pc[Main] = "m_init"
    /\ running' = TRUE
    /\ events' = [events EXCEPT !["running"] = TRUE]
    /\ gpio_initialized' = TRUE
    /\ gpio_open' = TRUE
    /\ \E c \in CameraOutcomes : svc' = [svc EXCEPT !.handles = Captured(c)]
    /\ SpeakBlocking(Main, "m_listen")
    /\ UNCHANGED << system_active, guidance_active, chat_active, voice_running,
                    exit_status, current_process, proc, orphan,
                    mode, done, utt, cmd, said, heard, parseVars, cancelled, timeVars >>

\* run() line 306: voice.start_continuous_listening(handle_voice_command)
MListen ==
    /\ Alive /\ pc[Main] = "m_listen"
    /\ voice_running' = TRUE
    /\ pc' = [pc EXCEPT ![Main] = "m_loop"]
    /\ UNCHANGED << running, system_active, guidance_active, chat_active, events,
                    gpio_initialized, gpio_open, exit_status, audioVars,
                    ret, mode, done, utt, cmd, said, heard, parseVars, cancelled, timeVars, svc >>

\* run() lines 316-322: the loop condition fails, the finally block calls shutdown()
MLoop ==
    /\ Alive /\ pc[Main] = "m_loop"
    /\ ~(running /\ events["running"])
    /\ pc' = [pc EXCEPT ![Main] = "sd_clear"]
    /\ mode' = "finally"
    /\ UNCHANGED << ctlVars, audioVars, ret, done, utt, cmd, said, heard, parseVars, cancelled, timeVars, svc >>

\* _signal_handler: SIGINT/SIGTERM delivered while the main thread is in its
\* loop; shutdown() runs inside the handler, on the main thread
Signal ==
    /\ Alive /\ pc[Main] = "m_loop" /\ mode = "none"
    /\ pc' = [pc EXCEPT ![Main] = "sd_clear"]
    /\ mode' = "signal"
    /\ UNCHANGED << ctlVars, audioVars, ret, done, utt, cmd, said, heard, parseVars, cancelled, timeVars, svc >>

-----------------------------------------------------------------------------
\* VoiceHandler._listen_loop / _process_audio

\* _listen_loop lines 131-143 and _process_audio lines 156-159: an utterance
\* is captured while VoiceHandler.running, a recognition task is started for
\* it, recognizes transcript u and parses it
Hear(u, limit) ==
    /\ Alive /\ voice_running /\ heard < limit
    /\ Free(Handlers) # {}
    /\ LET h == FirstFree(Handlers) IN
         /\ pc' = [pc EXCEPT ![h] = "h_call"]
         /\ utt' = [utt EXCEPT ![h] = u]
         /\ cmd' = [cmd EXCEPT ![h] = Parsed[u]]
    /\ heard' = heard + 1
    /\ UNCHANGED << ctlVars, audioVars, ret, mode, done, said, parseVars, cancelled, timeVars, svc >>

\* the recognition task's thread ends (normally, by a caught exception, or
\* by SystemExit, which ends only this thread)
HReap(h) ==
    /\ Alive /\ pc[h] = "h_ret"
    /\ pc' = [pc EXCEPT ![h] = "none"]
    /\ utt' = [utt EXCEPT ![h] = 0]
    /\ cmd' = [cmd EXCEPT ![h] = "None"]
    /\ said' = [said EXCEPT ![h] = "nothing"]
    /\ done' = [done EXCEPT ![h] = << >>]
    /\ svc' = [svc EXCEPT !.op[h] = NoOp]
    /\ UNCHANGED << ctlVars, audioVars, ret, mode, heard, parseVars, cancelled, timeVars >>

-----------------------------------------------------------------------------
\* SmartVisionGuide.handle_voice_command and the operations it calls

\* speak(MESSAGES[m]) called by recognition task h, which continues at r
HSpeak(h, m, r) ==
    /\ SpeakBlocking(h, r)
    /\ said' = [said EXCEPT ![h] = m]

\* speak(text) called by recognition task h with a computed text, named m
\* in said; a blank text returns at line 33 with nothing else done
HSpeakText(h, text, m, r) ==
    IF Blank(text)
    THEN /\ said' = [said EXCEPT ![h] = m]
         /\ pc' = [pc EXCEPT ![h] = r]
         /\ UNCHANGED << interrupt_flag, is_speaking, ret >>
    ELSE HSpeak(h, m, r)

\* line 165 without the test of chat_active
is_chat_input_any_mode(command_type) == command_type = "None"

\* line 165: self.chat_active and command_type is None
is_chat_input(command_type) == chat_active /\ command_type = "None"

\* handle_chat_input lines 287-291, called by recognition task h: the
\* capture, the chat request, speak(result)
handle_chat_input(h) ==
    \E c \in CameraOutcomes, r \in RepliesFor(svc.initialized) :
        LET frame == capture_frame(c).frame
            result == chat(frame, r)
        IN  /\ svc' = [svc EXCEPT !.handles = Captured(c),
                                  !.op[h] = [ frame |-> frame,
                                              asked |-> << result.prompt >>,
                                              posts |-> result.posts,
                                              text |-> result.text ]]
            /\ HSpeakText(h, result.text, "chat_reply", "h_ret")
            /\ UNCHANGED ctlVars

\* handle_voice_command without the test of line 138
HDispatchUngated(h) ==
    /\ Alive /\ pc[h] = "h_call"
    /\ IF cmd[h] = "guide" /\ ~events["guidance"]
       THEN /\ HSpeak(h, "guidance_start", "h_guide")
            /\ UNCHANGED << ctlVars, current_process, proc, orphan,
                            mode, done, utt, cmd, heard, parseVars, cancelled, timeVars, svc >>
       ELSE /\ pc' = [pc EXCEPT ![h] = "h_ret"]
            /\ UNCHANGED << ctlVars, audioVars, ret, mode, done, utt, cmd, said,
                            heard, parseVars, cancelled, timeVars, svc >>

\* stop_guidance lines 189-191, called by recognition task h
stop_guidance(h) ==
    /\ events' = [events EXCEPT !["guidance"] = FALSE]
    /\ guidance_active' = FALSE
    /\ HSpeak(h, "guidance_stop", "h_ret")
    /\ UNCHANGED << running, system_active, chat_active,
                    voice_running, gpio_initialized, gpio_open, exit_status >>

\* handle_voice_command lines 129-166, up to the first speak() of the branch
\* taken (start_guidance line 170-173, stop_guidance 189-191, read_text 248,
\* describe_scene 261, start_chat 274-276, stop_chat 280-282,
\* handle_chat_input 287-291)
HDispatch(h) ==
    /\ Alive /\ pc[h] = "h_call"
    /\ CASE cmd[h] = "activate" ->
              /\ system_active' = TRUE
              /\ HSpeak(h, "activated", "h_ret")
              /\ UNCHANGED << running, guidance_active, chat_active, events,
                              voice_running, gpio_initialized, gpio_open, exit_status >>
         [] cmd[h] # "activate" /\ ~system_active ->
              /\ pc' = [pc EXCEPT ![h] = "h_ret"]
              /\ UNCHANGED << ctlVars, interrupt_flag, is_speaking, ret, said >>
         [] cmd[h] = "guide" /\ system_active ->
              IF events["guidance"]
              THEN /\ pc' = [pc EXCEPT ![h] = "h_ret"]
                   /\ UNCHANGED << ctlVars, interrupt_flag, is_speaking, ret, said >>
              ELSE /\ HSpeak(h, "guidance_start", "h_guide")
                   /\ UNCHANGED ctlVars
         [] cmd[h] = "stop_guide" /\ system_active -> stop_guidance(h)
         [] cmd[h] = "read_text" /\ system_active ->
              /\ HSpeak(h, "reading_text", "h_cap")
              /\ UNCHANGED ctlVars
         [] cmd[h] = "describe" /\ system_active ->
              /\ HSpeak(h, "analyzing", "h_cap")
              /\ UNCHANGED ctlVars
         [] cmd[h] = "chat" /\ system_active ->
              /\ chat_active' = TRUE
              /\ events' = [events EXCEPT !["chat"] = TRUE]
              /\ HSpeak(h, "chat_start", "h_ret")
              /\ UNCHANGED << running, system_active, guidance_active,
                              voice_running, gpio_initialized, gpio_open, exit_status >>
         [] cmd[h] = "exit_chat" /\ system_active ->
              /\ chat_active' = FALSE
              /\ events' = [events EXCEPT !["chat"] = FALSE]
              /\ HSpeak(h, "chat_end", "h_ret")
              /\ UNCHANGED << running, system_active, guidance_active,
                              voice_running, gpio_initialized, gpio_open, exit_status >>
         [] cmd[h] = "exit" /\ system_active ->
              /\ HSpeak(h, "shutdown", "sd_clear")
              /\ UNCHANGED ctlVars
         [] cmd[h] = "None" /\ system_active ->
              IF is_chat_input(cmd[h])
              THEN handle_chat_input(h)
              ELSE /\ pc' = [pc EXCEPT ![h] = "h_ret"]
                   /\ UNCHANGED << ctlVars, interrupt_flag, is_speaking, ret, said >>
    /\ cancelled' = IF cmd[h] = "stop_guide" /\ system_active
                    THEN cancelled \cup { t \in GLoops \cup ULoops : pc[t] # "none" }
                    ELSE cancelled
    /\ IF system_active /\ is_chat_input(cmd[h]) THEN TRUE ELSE UNCHANGED svc
    /\ UNCHANGED << current_process, proc, orphan,
                    mode, done, utt, cmd, heard, parseVars, timeVars >>

\* start_guidance lines 174-185, after speak(guidance_start) has returned:
\* set the event and the flag, start one guidance and one ultrasonic thread
HGuide(h) ==
    /\ Alive /\ pc[h] = "h_guide"
    /\ Free(GLoops) # {} /\ Free(ULoops) # {}
    /\ events' = [events EXCEPT !["guidance"] = TRUE]
    /\ guidance_active' = TRUE
    /\ pc' = [pc EXCEPT ![h] = "h_ret",
                        ![FirstFree(GLoops)] = "g_top",
                        ![FirstFree(ULoops)] = "u_top"]
    /\ UNCHANGED << running, system_active, chat_active, voice_running,
                    gpio_initialized, gpio_open, exit_status, audioVars,
                    ret, mode, done, utt, cmd, said, heard, parseVars, cancelled, timeVars, svc >>

\* read_text lines 250-257 / describe_scene lines 263-270: capture a frame,
\* then speak the analysis result, or the camera-error message
HCapture(h) ==
    /\ Alive /\ pc[h] = "h_cap"
    /\ \E c \in CameraOutcomes, r \in RepliesFor(svc.initialized) :
         LET frame == capture_frame(c).frame
             result == IF cmd[h] = "read_text" THEN read_text(frame, r)
                       ELSE describe_scene(frame, r)
         IN  IF frame = "None"
             THEN /\ svc' = [svc EXCEPT !.handles = Captured(c),
                                        !.op[h] = [NoOp EXCEPT !.frame = frame]]
                  /\ HSpeak(h, "error_camera", "h_ret")
             ELSE /\ svc' = [svc EXCEPT !.handles = Captured(c),
                                        !.op[h] = [ frame |-> frame,
                                                    asked |-> << result.prompt >>,
                                                    posts |-> result.posts,
                                                    text |-> result.text ]]
                  /\ HSpeakText(h, result.text,
                                IF cmd[h] = "read_text" THEN "ocr_result"
                                ELSE "describe_result", "h_ret")
    /\ UNCHANGED << ctlVars, current_process, proc, orphan,
                    mode, done, utt, cmd, heard, parseVars, cancelled, timeVars >>

-----------------------------------------------------------------------------
\* SmartVisionGuide._guidance_loop and _ultrasonic_loop

\* a guidance loop that resets guidance_active when it leaves
GCycleResetsFlag(g) ==
    /\ Alive /\ pc[g] = "g_top"
    /\ IF ~(events["running"] /\ events["guidance"])
       THEN /\ pc' = [pc EXCEPT ![g] = "none"]
            /\ guidance_active' = FALSE
            /\ UNCHANGED << interrupt_flag, is_speaking, ret, svc >>
       ELSE \E c \in CameraOutcomes, narrate \in BOOLEAN :
              /\ svc' = [svc EXCEPT !.handles = Captured(c)]
              /\ UNCHANGED guidance_active
              /\ IF capture_frame(c).frame # "None" /\ narrate
                 THEN SpeakBlocking(g, "g_top")
                 ELSE UNCHANGED << interrupt_flag, is_speaking, pc, ret >>
    /\ cancelled' = IF pc'[g] = "none" THEN cancelled \ {g} ELSE cancelled
    /\ UNCHANGED << running, system_active, chat_active, events,
                    voice_running, gpio_initialized, gpio_open, exit_status,
                    current_process, proc, orphan,
                    mode, done, utt, cmd, said, heard, parseVars, timeVars >>

\* _guidance_loop lines 197-221: one cycle.  The loop condition is read; if
\* it holds a frame is captured and analysed, and the result is spoken with
\* speak(result) (blocking) unless it is empty, says "no obstacle", or the
\* capture failed; the sliced sleep changes no state
GCycle(g) ==
    /\ Alive /\ pc[g] = "g_top"
    /\ IF ~(events["running"] /\ events["guidance"])
       THEN /\ pc' = [pc EXCEPT ![g] = "none"]
            /\ UNCHANGED << interrupt_flag, is_speaking, ret, svc >>
       ELSE \E c \in CameraOutcomes, narrate \in BOOLEAN :
              /\ svc' = [svc EXCEPT !.handles = Captured(c)]
              /\ IF capture_frame(c).frame # "None" /\ narrate
                 THEN SpeakBlocking(g, "g_top")
                 ELSE UNCHANGED << interrupt_flag, is_speaking, pc, ret >>
    /\ cancelled' = IF pc'[g] = "none" THEN cancelled \ {g} ELSE cancelled
    /\ UNCHANGED << ctlVars, current_process, proc, orphan,
                    mode, done, utt, cmd, said, heard, parseVars, timeVars >>

\* _ultrasonic_loop lines 230-242: one cycle.  When the sample is below 20
\* and the cooldown has passed, speak(obstacle_warning, block=False) clears
\* the interrupt flag and starts a thread running _speak_sync
UCycle(u) ==
    /\ Alive /\ pc[u] = "u_top"
    /\ IF ~(events["running"] /\ events["guidance"])
       THEN /\ pc' = [pc EXCEPT ![u] = "none"]
            /\ UNCHANGED << interrupt_flag >>
       ELSE \E warn \in BOOLEAN :
              IF warn /\ Free(Speakers) # {}
              THEN /\ interrupt_flag' = FALSE
                   /\ pc' = [pc EXCEPT ![FirstFree(Speakers)] = "sp_begin"]
              ELSE UNCHANGED << interrupt_flag, pc >>
    /\ cancelled' = IF pc'[u] = "none" THEN cancelled \ {u} ELSE cancelled
    /\ UNCHANGED << ctlVars, is_speaking, current_process, proc, orphan,
                    ret, mode, done, utt, cmd, said, heard, parseVars, timeVars, svc >>

-----------------------------------------------------------------------------
\* SmartVisionGuide.shutdown, run by the main thread (from the finally block
\* of run(), or inside the signal handler) or by a recognition task (Exit)

ShutdownOrder == << "clear", "voice", "audio", "gpio" >>

\* how a shutdown() run that raises or calls sys.exit(0) ends, per runner:
\* a recognition task's thread ends; the signal handler's SystemExit or
\* exception unwinds run() into its finally block, which calls shutdown()
\* again; in the finally block the process ends
Unwind(t, status) ==
    IF t # Main
    THEN /\ pc' = [pc EXCEPT ![t] = "h_ret"]
         /\ UNCHANGED << mode, exit_status >>
    ELSE IF mode = "signal"
    THEN /\ pc' = [pc EXCEPT ![t] = "sd_clear"]
         /\ mode' = "finally"
         /\ UNCHANGED exit_status
    ELSE /\ pc' = [pc EXCEPT ![t] = "exited"]
         /\ exit_status' = status
         /\ UNCHANGED mode

\* shutdown that also leaves the Active state, and resets nothing else
SdClearDeactivate(t) ==
    /\ Alive /\ pc[t] = "sd_clear"
    /\ running' = FALSE
    /\ system_active' = FALSE
    /\ events' = [e \in EventNames |-> FALSE]
    /\ done' = [done EXCEPT ![t] = << "clear" >>]
    /\ pc' = [pc EXCEPT ![t] = "sd_voice"]
    /\ UNCHANGED << guidance_active, chat_active, voice_running,
                    gpio_initialized, gpio_open, exit_status, audioVars,
                    ret, mode, utt, cmd, said, heard, parseVars, cancelled, timeVars, svc >>

\* shutdown lines 328-332
SdClear(t) ==
    /\ Alive /\ pc[t] = "sd_clear"
    /\ running' = FALSE
    /\ events' = [e \in EventNames |-> FALSE]
    /\ done' = [done EXCEPT ![t] = << "clear" >>]
    /\ pc' = [pc EXCEPT ![t] = "sd_voice"]
    /\ UNCHANGED << system_active, guidance_active, chat_active, voice_running,
                    gpio_initialized, gpio_open, exit_status, audioVars,
                    ret, mode, utt, cmd, said, heard, parseVars, cancelled, timeVars, svc >>

\* shutdown with audio.stop() left out
SdVoiceSkipAudio(t) ==
    /\ Alive /\ pc[t] = "sd_voice"
    /\ voice_running' = FALSE
    /\ done' = [done EXCEPT ![t] = Append(@, "voice")]
    /\ pc' = [pc EXCEPT ![t] = "sd_gpio"]
    /\ UNCHANGED << running, system_active, guidance_active, chat_active, events,
                    gpio_initialized, gpio_open, exit_status, audioVars,
                    ret, mode, utt, cmd, said, heard, parseVars, cancelled, timeVars, svc >>

\* shutdown line 335: voice.stop_listening()
SdVoice(t) ==
    /\ Alive /\ pc[t] = "sd_voice"
    /\ voice_running' = FALSE
    /\ done' = [done EXCEPT ![t] = Append(@, "voice")]
    /\ pc' = [pc EXCEPT ![t] = "sd_stop"]
    /\ UNCHANGED << running, system_active, guidance_active, chat_active, events,
                    gpio_initialized, gpio_open, exit_status, audioVars,
                    ret, mode, utt, cmd, said, heard, parseVars, cancelled, timeVars, svc >>

\* shutdown line 338 -> AudioHandler.stop line 120
SdStop(t) ==
    /\ Alive /\ pc[t] = "sd_stop"
    /\ interrupt_flag' = TRUE
    /\ done' = [done EXCEPT ![t] = Append(@, "audio")]
    /\ pc' = [pc EXCEPT ![t] = "sd_chk"]
    /\ UNCHANGED << ctlVars, is_speaking, current_process, proc, orphan,
                    ret, mode, utt, cmd, said, heard, parseVars, cancelled, timeVars, svc >>

\* AudioHandler.stop line 121 (and line 123 when the test fails)
SdChk(t) ==
    /\ Alive /\ pc[t] = "sd_chk"
    /\ IF current_process # NoProcess /\ proc[current_process] = "running"
       THEN /\ pc' = [pc EXCEPT ![t] = "sd_term"]
            /\ UNCHANGED is_speaking
       ELSE /\ pc' = [pc EXCEPT ![t] = "sd_gpio"]
            /\ is_speaking' = FALSE
    /\ UNCHANGED << ctlVars, current_process, interrupt_flag, proc, orphan,
                    ret, mode, done, utt, cmd, said, heard, parseVars, cancelled, timeVars, svc >>

\* AudioHandler.stop lines 122-123: current_process is read again; None
\* raises AttributeError out of stop() and shutdown()
SdTerm(t) ==
    /\ Alive /\ pc[t] = "sd_term"
    /\ IF current_process = NoProcess
       THEN /\ Unwind(t, "crash")
            /\ UNCHANGED << is_speaking, proc >>
       ELSE /\ proc' = [proc EXCEPT ![current_process] = "ended"]
            /\ is_speaking' = FALSE
            /\ pc' = [pc EXCEPT ![t] = "sd_gpio"]
            /\ UNCHANGED << mode, exit_status >>
    /\ UNCHANGED << running, system_active, guidance_active, chat_active, events,
                    voice_running, gpio_initialized, gpio_open,
                    current_process, interrupt_flag, orphan,
                    ret, done, utt, cmd, said, heard, parseVars, cancelled, timeVars, svc >>

\* shutdown line 341 -> GPIOHandler.cleanup
SdGpio(t) ==
    /\ Alive /\ pc[t] = "sd_gpio"
    /\ gpio_open' = FALSE
    /\ gpio_initialized' = FALSE
    /\ done' = [done EXCEPT ![t] = Append(@, "gpio")]
    /\ pc' = [pc EXCEPT ![t] = "sd_exit"]
    /\ UNCHANGED << running, system_active, guidance_active, chat_active, events,
                    voice_running, exit_status, audioVars,
                    ret, mode, utt, cmd, said, heard, parseVars, cancelled, timeVars, svc >>

\* shutdown lines 344-347: sleep, sys.exit(0)
SdExit(t) ==
    /\ Alive /\ pc[t] = "sd_exit"
    /\ Unwind(t, "exit0")
    /\ UNCHANGED << running, system_active, guidance_active, chat_active, events,
                    voice_running, gpio_initialized, gpio_open, audioVars,
                    ret, done, utt, cmd, said, heard, parseVars, cancelled, timeVars, svc >>

-----------------------------------------------------------------------------
\* The program

\* no timed view of a loop has started
CadIdle ==
    [ phase |-> "idle", now |-> 0, n |-> 0, start_time |-> 0, elapsed |-> 0,
      sleep_time |-> 0, sleep_end |-> 0, slices |-> 0, cut |-> FALSE,
      prev_start |-> 0, prev_elapsed |-> 0, prev_cut |-> FALSE,
      frame |-> "None", posts |-> 0, result |-> << >>, spoke |-> FALSE ]
UslIdle ==
    [ phase |-> "idle", now |-> 0, n |-> 0, sampled_at |-> 0, distance |-> << >>,
      cause |-> "none", beeps |-> 0, left |-> 0,
      warned |-> FALSE, last_warning_time |-> 0, prev_warning_time |-> 0,
      spoken_at |-> 0 ]

\* the vision service configured, no camera device open, no command under way
SvcIdle == [ initialized |-> GeminiInitialize("valid"), handles |-> 0, op |-> [h \in Handlers |-> NoOp] ]

\* the state after SmartVisionGuide.__init__ and the handlers' constructors
InitControl ==
    /\ running = FALSE
    /\ system_active = FALSE
    /\ guidance_active = FALSE
    /\ chat_active = FALSE
    /\ events = [e \in EventNames |-> FALSE]
    /\ voice_running = FALSE
    /\ gpio_initialized = FALSE
    /\ gpio_open = FALSE
    /\ exit_status = "alive"
    /\ is_speaking = FALSE
    /\ current_process = NoProcess
    /\ interrupt_flag = FALSE
    /\ proc = [t \in Threads |-> "none"]
    /\ orphan = FALSE
    /\ pc = [t \in Threads |-> IF t = Main THEN "m_init" ELSE "none"]
    /\ ret = [t \in Threads |-> "none"]
    /\ mode = "none"
    /\ done = [t \in Runners |-> << >>]
    /\ utt = [h \in Handlers |-> 0]
    /\ cmd = [h \in Handlers |-> "None"]
    /\ said = [h \in Handlers |-> "nothing"]
    /\ heard = 0
    /\ cancelled = {}
    /\ cad = CadIdle
    /\ usl = UslIdle

InitProgram ==
    /\ InitControl
    /\ svc = SvcIdle

Init ==
    /\ InitProgram
    /\ p_transcript = << >>
    /\ p_result = << "idle", << >> >>

\* one utterance per command kind, and one that matches no phrase
SpokenUtterances == 1..9

Next ==
    \/ MRun
    \/ MListen
    \/ MLoop
    \/ Signal
    \/ \E u \in SpokenUtterances : Hear(u, MaxHeard)
    \/ \E h \in Handlers : HDispatch(h)
    \/ \E h \in Handlers : HGuide(h)
    \/ \E h \in Handlers : HCapture(h)
    \/ \E h \in Handlers : HReap(h)
    \/ \E g \in GLoops : GCycle(g)
    \/ \E u \in ULoops : UCycle(u)
    \/ \E t \in Speakers : SpBegin(t)
    \/ \E t \in Threads : SpSynth(t)
    \/ \E t \in Threads : SpPoll(t)
    \/ \E t \in Threads : SpFinally(t)
    \/ \E t \in Threads : SpRaise(t)
    \/ \E t \in Threads : ProcExit(t)
    \/ OrphanExit
    \/ \E t \in Runners : SdClear(t)
    \/ \E t \in Runners : SdVoice(t)
    \/ \E t \in Runners : SdStop(t)
    \/ \E t \in Runners : SdChk(t)
    \/ \E t \in Runners : SdTerm(t)
    \/ \E t \in Runners : SdGpio(t)
    \/ \E t \in Runners : SdExit(t)

Spec == Init /\ [][Next]_vars

\* The shutdown scenario: the user says only "Hello vision" and
\* "System exit", or a signal arrives; every speak() is a blocking one
MaxHeardExit == 2   \* utterances recognized in one run of the shutdown scenario

ExitUtterances == {1, 8}

NextExit ==
    \/ MRun
    \/ MListen
    \/ MLoop
    \/ Signal
    \/ \E u \in ExitUtterances : Hear(u, MaxHeardExit)
    \/ \E h \in Handlers : HDispatch(h)
    \/ \E h \in Handlers : HReap(h)
    \/ \E t \in Threads : SpSynth(t)
    \/ \E t \in Threads : SpPoll(t)
    \/ \E t \in Threads : SpFinally(t)
    \/ \E t \in Threads : SpRaise(t)
    \/ \E t \in Threads : ProcExit(t)
    \/ OrphanExit
    \/ \E t \in Runners : SdClear(t)
    \/ \E t \in Runners : SdVoice(t)
    \/ \E t \in Runners : SdStop(t)
    \/ \E t \in Runners : SdChk(t)
    \/ \E t \in Runners : SdTerm(t)
    \/ \E t \in Runners : SdGpio(t)
    \/ \E t \in Runners : SdExit(t)

\* a thread inside _speak_sync keeps running: its next line is executed
SpeechStep(t) == SpSynth(t) \/ SpPoll(t) \/ SpFinally(t) \/ SpRaise(t)

\* The shutdown scenario with the scheduler's guarantee for the threads
\* inside _speak_sync; nothing is assumed about when a player subprocess
\* ends by itself
FairSpecExit ==
    Init /\ [][NextExit]_vars /\ \A t \in Threads : WF_vars(SpeechStep(t))

\* The guidance scenario: the user says only "Hello vision", "Guide me" and
\* "Stop guidance", and no shutdown is requested
MaxHeardGuide == 4  \* utterances recognized in one run of the guidance scenario

GuideUtterances == {1, 2, 3}

NextGuideSaying(spoken, limit) ==
    \/ MRun
    \/ MListen
    \/ \E u \in spoken : Hear(u, limit)
    \/ \E h \in Handlers : HDispatch(h)
    \/ \E h \in Handlers : HGuide(h)
    \/ \E h \in Handlers : HReap(h)
    \/ \E g \in GLoops : GCycle(g)
    \/ \E u \in ULoops : UCycle(u)
    \/ \E t \in Speakers : SpBegin(t)
    \/ \E t \in Threads : SpSynth(t)
    \/ \E t \in Threads : SpPoll(t)
    \/ \E t \in Threads : SpFinally(t)
    \/ \E t \in Threads : SpRaise(t)
    \/ \E t \in Threads : ProcExit(t)
    \/ OrphanExit

NextGuide == NextGuideSaying(GuideUtterances, MaxHeardGuide)

SpecGuide == Init /\ [][NextGuide]_vars

\* The same scenario without "Stop guidance": no StopGuide is ever applied
MaxHeardGuideOnly == 3  \* utterances recognized in one run without StopGuide

GuideOnlyUtterances == {1, 2}

NextGuideOnly == NextGuideSaying(GuideOnlyUtterances, MaxHeardGuideOnly)

SpecGuideOnly == Init /\ [][NextGuideOnly]_vars

\* The chat scenario: the user says only "Hello vision", "Chat", the three
\* exit-chat phrases and "banana", and no shutdown is requested
MaxHeardChat == 3   \* utterances recognized in one run of the chat scenario

ChatUtterances == {1, 6, 7, 9, 10, 11}

NextChat ==
    \/ MRun
    \/ MListen
    \/ \E u \in ChatUtterances : Hear(u, MaxHeardChat)
    \/ \E h \in Handlers : HDispatch(h)
    \/ \E h \in Handlers : HReap(h)
    \/ \E t \in Threads : SpSynth(t)
    \/ \E t \in Threads : SpPoll(t)
    \/ \E t \in Threads : SpFinally(t)
    \/ \E t \in Threads : SpRaise(t)
    \/ \E t \in Threads : ProcExit(t)
    \/ OrphanExit

SpecChat == Init /\ [][NextChat]_vars

\* The program started without a usable key: activation, the one-shot
\* commands, the chat command and a chat sentence
MaxHeardNoKey == 3   \* utterances recognized in one run without a key

NoKeyUtterances == {1, 4, 5, 6, 9}

InitNoKey ==
    /\ InitControl
    /\ \E key \in {"unset", "placeholder"} :
         svc = [SvcIdle EXCEPT !.initialized = GeminiInitialize(key)]
    /\ p_transcript = << >>
    /\ p_result = << "idle", << >> >>

NextNoKey ==
    \/ MRun
    \/ MListen
    \/ \E u \in NoKeyUtterances : Hear(u, MaxHeardNoKey)
    \/ \E h \in Handlers : HDispatch(h)
    \/ \E h \in Handlers : HCapture(h)
    \/ \E h \in Handlers : HReap(h)
    \/ \E t \in Threads : SpSynth(t)
    \/ \E t \in Threads : SpPoll(t)
    \/ \E t \in Threads : SpFinally(t)
    \/ \E t \in Threads : SpRaise(t)
    \/ \E t \in Threads : ProcExit(t)
    \/ OrphanExit

SpecNoKey == InitNoKey /\ [][NextNoKey]_vars

-----------------------------------------------------------------------------
\* GPIOHandler: the distance sensor and the buzzer.  Distances are in whole
\* centimetres; None is the empty tuple.

\* config.settings as gpio_handler.py lines 20-28 import it: the two
\* distance thresholds, in cm
OBSTACLE_CRITICAL_DISTANCE == 15
OBSTACLE_DISTANCE_THRESHOLD == 30

MinValidDistance == 2       \* gpio_handler.py line 117: 2 <= distance
MaxValidDistance == 400     \* gpio_handler.py line 117: distance <= 400
MaxEcho == 402              \* longest distance an echo pulse can stand for

\* what one call of measure_distance meets: no lgpio module (line 85), an
\* echo that never rises or never falls within 0.1 s (lines 103, 109), an
\* lgpio call that raises (line 123), or a pulse standing for distance d
SensorOutcomes ==
    { [kind |-> k, d |-> 0] : k \in {"unavailable", "timeout", "error"} }
    \cup { [kind |-> "echo", d |-> d] : d \in 0..MaxEcho }

\* measure_distance lines 85-125; initialized is GPIOHandler.initialized
measure_distance(o, initialized) ==
    IF o.kind = "unavailable" \/ ~initialized THEN << >>
    ELSE IF o.kind \in {"timeout", "error"} THEN << >>
    ELSE IF MinValidDistance <= o.d /\ o.d <= MaxValidDistance THEN << o.d >>
    ELSE << >>

\* why a call of measure_distance returned None, or "ok"
SampleCause(o, initialized) ==
    IF o.kind = "unavailable" \/ ~initialized THEN "unavailable"
    ELSE IF o.kind \in {"timeout", "error"} THEN o.kind
    ELSE IF MinValidDistance <= o.d /\ o.d <= MaxValidDistance THEN "ok"
    ELSE "range"

\* the tiers with the thresholds counted into the tier below them
alert_by_distance_inclusive(distance) ==
    IF distance = << >> THEN 0
    ELSE IF distance[1] <= OBSTACLE_CRITICAL_DISTANCE THEN 2
    ELSE IF distance[1] <= OBSTACLE_DISTANCE_THRESHOLD THEN 1
    ELSE 0

\* alert_by_distance lines 199-209: the number of beep(0.1) calls it makes
alert_by_distance(distance) ==
    IF distance = << >> THEN 0
    ELSE IF distance[1] < OBSTACLE_CRITICAL_DISTANCE THEN 2
    ELSE IF distance[1] < OBSTACLE_DISTANCE_THRESHOLD THEN 1
    ELSE 0

\* one call of measure_distance followed by alert_by_distance on its result
AlertSample(o) ==
    /\ usl.phase = "alert"
    /\ usl' = [usl EXCEPT !.n = 1,
                          !.distance = measure_distance(o, gpio_initialized),
                          !.cause = SampleCause(o, gpio_initialized),
                          !.beeps = alert_by_distance(
                                        measure_distance(o, gpio_initialized))]
    /\ UNCHANGED << ctlVars, audioVars, threadVars, parseVars, cancelled, cad, svc >>

-----------------------------------------------------------------------------
\* The guidance loop with its clock.  Times are in tenths of a second, the
\* length of one sleep slice of line 221.

CAPTURE_INTERVAL == 30  \* settings.py: CAPTURE_INTERVAL = 3.0 (seconds)
SleepSlice == 1         \* main.py line 221: time.sleep(0.1)
MaxOvershoot == 1       \* how much longer than asked a time.sleep(0.1) may take
MaxProcessing == 7      \* longest capture + analysis + narration, in half seconds
MaxCycles == 2          \* guidance cycles in one run of the timed loop

\* the guidance loop thread the clock is attached to
TimedLoop == << "g", 1 >>

\* Python's max of two numbers
Max(a, b) == IF a >= b THEN a ELSE b

\* the sleep time without the clamp at zero
sleep_time_unclamped(elapsed) == CAPTURE_INTERVAL - elapsed

\* line 216: sleep_time = max(CAPTURE_INTERVAL - elapsed, 0)
sleep_time(elapsed) == Max(CAPTURE_INTERVAL - elapsed, 0)

\* line 208, the string searched for
NoObstacle == <<"n","o"," ","o","b","s","t","a","c","l","e">>

\* line 208 with the search done in result itself, not in result.lower()
should_narrate_case_sensitive(result) ==
    result # << >> /\ ~PyIn(NoObstacle, result)

\* line 208: result and "no obstacle" not in result.lower()
should_narrate(result) ==
    result # << >> /\ ~PyIn(NoObstacle, Lower(result))

\* lines 197-219: the loop condition; when it holds, start_time, the
\* capture (the camera meeting c), the analysis when a frame was captured
\* (the service meeting r), speak(result) when line 208 holds, all of this
\* taking p, then elapsed, sleep_time and sleep_end
CadCycle(p, c, r) ==
    /\ Alive /\ cad.phase = "top" /\ pc[TimedLoop] = "g_top"
    /\ IF ~(events["running"] /\ events["guidance"])
       THEN /\ cad' = [cad EXCEPT !.phase = "ended"]
            /\ pc' = [pc EXCEPT ![TimedLoop] = "none"]
            /\ cancelled' = cancelled \ {TimedLoop}
       ELSE /\ cad.n < MaxCycles
            /\ LET start == cad.now
                   after == cad.now + p
                   el == after - start
                   frame == capture_frame(c).frame
                   nav == IF frame # "None"
                          THEN get_navigation_guidance(frame, r)
                          ELSE [ text |-> << >>, prompt |-> "none", posts |-> << >> ]
               IN  cad' = [ phase |-> "sleep", now |-> after, n |-> cad.n + 1,
                            start_time |-> start, elapsed |-> el,
                            sleep_time |-> sleep_time(el),
                            sleep_end |-> after + sleep_time(el),
                            slices |-> 0, cut |-> FALSE,
                            prev_start |-> cad.start_time,
                            prev_elapsed |-> cad.elapsed,
                            prev_cut |-> cad.cut,
                            frame |-> frame, posts |-> Len(nav.posts),
                            result |-> nav.text,
                            spoke |-> (frame # "None" /\ should_narrate(nav.text)) ]
            /\ UNCHANGED << pc, cancelled >>
    /\ svc' = IF events["running"] /\ events["guidance"]
              THEN [svc EXCEPT !.handles = Captured(c)] ELSE svc
    /\ UNCHANGED << ctlVars, audioVars, ret, mode, done, utt, cmd, said, heard,
                    parseVars, usl >>

\* lines 220-221: one turn of the sliced sleep; a slice takes d
CadSleep(d) ==
    /\ Alive /\ cad.phase = "sleep"
    /\ IF cad.now < cad.sleep_end /\ events["guidance"]
       THEN cad' = [cad EXCEPT !.now = @ + d, !.slices = @ + 1]
       ELSE cad' = [cad EXCEPT !.phase = "top", !.cut = (cad.now < cad.sleep_end)]
    /\ UNCHANGED << ctlVars, audioVars, threadVars, parseVars, cancelled, usl, svc >>

\* stop_guidance lines 189-190, applied while the timed loop runs
TimedCancel ==
    /\ Alive /\ events["guidance"]
    /\ events' = [events EXCEPT !["guidance"] = FALSE]
    /\ guidance_active' = FALSE
    /\ UNCHANGED << running, system_active, chat_active, voice_running,
                    gpio_initialized, gpio_open, exit_status,
                    audioVars, threadVars, parseVars, cancelled, timeVars, svc >>

\* start_guidance lines 174-175, applied after a stop_guidance
TimedResume ==
    /\ Alive /\ ~events["guidance"] /\ system_active
    /\ events' = [events EXCEPT !["guidance"] = TRUE]
    /\ guidance_active' = TRUE
    /\ UNCHANGED << running, system_active, chat_active, voice_running,
                    gpio_initialized, gpio_open, exit_status,
                    audioVars, threadVars, parseVars, cancelled, timeVars, svc >>

\* the program while guidance runs: activated, Guide applied, both commands
\* returned, one guidance and one ultrasonic loop at the top of a cycle
InitGuiding ==
    /\ running = TRUE
    /\ system_active = TRUE
    /\ guidance_active = TRUE
    /\ chat_active = FALSE
    /\ events = [e \in EventNames |-> e # "chat"]
    /\ voice_running = TRUE
    /\ gpio_initialized = TRUE
    /\ gpio_open = TRUE
    /\ exit_status = "alive"
    /\ is_speaking = FALSE
    /\ current_process = NoProcess
    /\ interrupt_flag = FALSE
    /\ proc = [t \in Threads |-> "none"]
    /\ orphan = FALSE
    /\ pc = [t \in Threads |-> IF t = Main THEN "m_loop"
                               ELSE IF t = << "g", 1 >> THEN "g_top"
                               ELSE IF t = << "u", 1 >> THEN "u_top" ELSE "none"]
    /\ ret = [t \in Threads |-> "none"]
    /\ mode = "none"
    /\ done = [t \in Runners |-> << >>]
    /\ utt = [h \in Handlers |-> 0]
    /\ cmd = [h \in Handlers |-> "None"]
    /\ said = [h \in Handlers |-> "nothing"]
    /\ heard = 2
    /\ cancelled = {}
    /\ p_transcript = << >>
    /\ p_result = << "idle", << >> >>
    /\ svc = SvcIdle

InitCadence ==
    /\ InitGuiding
    /\ cad = [CadIdle EXCEPT !.phase = "top"]
    /\ usl = UslIdle

\* in the runs that vary the timing the capture succeeds or the read
\* fails, and the service replies with no text
NextCadence ==
    \/ \E k \in 0..MaxProcessing, c \in {"frame", "read_failed"} :
            CadCycle(5 * k, c, [kind |-> "no_text", text |-> << >>])
    \/ \E d \in SleepSlice..(SleepSlice + MaxOvershoot) : CadSleep(d)
    \/ TimedCancel
    \/ TimedResume

SpecCadence == InitCadence /\ [][NextCadence]_vars

MaxNarrationSlack == 1  \* most a cycle of these runs ends before its interval, in half seconds

\* the runs that vary the capture and the reply of the service; a cycle
\* takes up most of its interval
NextNarration ==
    \/ \E k \in 0..MaxNarrationSlack, c \in CameraOutcomes, r \in ServiceReplies :
            CadCycle(CAPTURE_INTERVAL - 5 * k, c, r)
    \/ \E d \in SleepSlice..(SleepSlice + MaxOvershoot) : CadSleep(d)
    \/ TimedCancel
    \/ TimedResume

SpecNarration == InitCadence /\ [][NextNarration]_vars

-----------------------------------------------------------------------------
\* The ultrasonic loop with its clock, in tenths of a second.

StartClock == 1000      \* time.time() when the loop starts: far more than 3 s
WarnDistance == 20      \* main.py line 238: distance < 20
WarnCooldown == 30      \* main.py line 238: ... > 3 (seconds)
SamplePause == 2        \* main.py line 242: time.sleep(0.2)
MaxPauses == 20         \* longest time from one sample to the next, in pauses
MaxSamples == 3         \* samples in one run of the timed loop

\* what the samples of the timed loop meet: every kind of failure, pulses
\* standing for distances outside the sensor's range, and for distances on
\* both sides of the warning distance
LoopOutcomes ==
    { o \in SensorOutcomes : o.kind # "echo" \/ o.d \in {1, 5, 19, 20, 401} }

\* the ultrasonic loop thread the clock is attached to
TimedMonitor == << "u", 1 >>

\* the test of line 238 without the test of line 233: None counts as near
warning_due_none_as_near(distance, now, last_warning_time) ==
    /\ (distance = << >> \/ distance[1] < WarnDistance)
    /\ (now - last_warning_time) > WarnCooldown

\* lines 233 and 238: distance is not None and distance < 20 and
\* (time.time() - last_warning_time) > 3
warning_due(distance, now, last_warning_time) ==
    /\ distance # << >>
    /\ distance[1] < WarnDistance
    /\ (now - last_warning_time) > WarnCooldown

\* lines 230-242: the loop condition; when it holds, one sample (the sensor
\* meeting o), the buzzer when the sample is not None, the warning test,
\* last_warning_time, and the pause until the next sample
UslSample(o, k) ==
    /\ Alive /\ usl.phase = "top" /\ pc[TimedMonitor] = "u_top"
    /\ IF ~(events["running"] /\ events["guidance"])
       THEN /\ usl' = [usl EXCEPT !.phase = "ended"]
            /\ pc' = [pc EXCEPT ![TimedMonitor] = "none"]
            /\ cancelled' = cancelled \ {TimedMonitor}
       ELSE /\ usl.n < MaxSamples
            /\ LET r == measure_distance(o, gpio_initialized)
                   due == warning_due(r, usl.now, usl.last_warning_time)
               IN  usl' = [ phase |-> "top", now |-> usl.now + SamplePause * k,
                            n |-> usl.n + 1, sampled_at |-> usl.now,
                            distance |-> r,
                            cause |-> SampleCause(o, gpio_initialized),
                            beeps |-> IF r # << >> THEN alert_by_distance(r) ELSE 0,
                            left |-> 0,
                            warned |-> due,
                            last_warning_time |->
                                IF due THEN usl.now ELSE usl.last_warning_time,
                            prev_warning_time |-> usl.last_warning_time,
                            spoken_at |-> IF due THEN usl.now ELSE usl.spoken_at ]
            /\ UNCHANGED << pc, cancelled >>
    /\ UNCHANGED << ctlVars, audioVars, ret, mode, done, utt, cmd, said, heard,
                    parseVars, cad, svc >>

\* line 228: last_warning_time = 0, and the first reading of the clock
InitUltrasonic ==
    /\ InitGuiding
    /\ cad = CadIdle
    /\ usl = [UslIdle EXCEPT !.phase = "top", !.now = StartClock]

NextUltrasonic ==
    \/ \E o \in LoopOutcomes, k \in 1..MaxPauses : UslSample(o, k)
    \/ TimedCancel
    \/ TimedResume

SpecUltrasonic == InitUltrasonic /\ [][NextUltrasonic]_vars

\* The ultrasonic loops of one session: after StopGuide has ended a loop,
\* Guide starts the next one.  usl.spoken_at is the time of the last warning
\* any loop of the session has spoken (0: none yet).

MaxSessionPauses == 4   \* longest pause between two samples, in 0.2 s

\* what the sensor gives in the session: near, not near, no echo
SessionOutcomes ==
    { o \in LoopOutcomes : o.kind = "timeout" \/ (o.kind = "echo" /\ o.d \in {5, 20}) }

\* start_guidance lines 170-186 once the previous ultrasonic loop has ended:
\* the event, the flag, and a new _ultrasonic_loop thread, whose line 228
\* sets its own last_warning_time to 0
UslRestart ==
    /\ Alive /\ ~events["guidance"] /\ system_active
    /\ usl.phase = "ended" /\ pc[TimedMonitor] = "none"
    /\ events' = [events EXCEPT !["guidance"] = TRUE]
    /\ guidance_active' = TRUE
    /\ pc' = [pc EXCEPT ![TimedMonitor] = "u_top"]
    /\ usl' = [usl EXCEPT !.phase = "top", !.last_warning_time = 0]
    /\ UNCHANGED << running, system_active, chat_active, voice_running,
                    gpio_initialized, gpio_open, exit_status, audioVars,
                    ret, mode, done, utt, cmd, said, heard,
                    parseVars, cancelled, cad, svc >>

NextSession ==
    \/ \E o \in SessionOutcomes, k \in 1..MaxSessionPauses : UslSample(o, k)
    \/ TimedCancel
    \/ TimedResume
    \/ UslRestart

SpecSession == InitUltrasonic /\ [][NextSession]_vars

\* The ultrasonic loop statement by statement while shutdown() runs on the
\* main thread: one step per access to the GPIO handle.  usl.left is the
\* number of beep() calls alert_by_distance has still to make.

\* gpio_handler.py: an lgpio call on the handle; on a closed handle lgpio
\* raises, which measure_distance catches at line 123 and beep at line 170
HandleUsable == gpio_open

\* main.py line 230 and gpio_handler.py line 85: the loop condition, then
\* measure_distance reads self.initialized
UslEnter ==
    /\ Alive /\ usl.phase = "top" /\ pc[TimedMonitor] = "u_top"
    /\ IF ~(events["running"] /\ events["guidance"])
       THEN /\ usl' = [usl EXCEPT !.phase = "ended"]
            /\ pc' = [pc EXCEPT ![TimedMonitor] = "none"]
            /\ cancelled' = cancelled \ {TimedMonitor}
       ELSE /\ usl.n < MaxSamples
            /\ usl' = [usl EXCEPT
                         !.n = @ + 1, !.sampled_at = usl.now,
                         !.distance = << >>, !.beeps = 0, !.left = 0,
                         !.warned = FALSE,
                         !.cause = IF gpio_initialized THEN "none"
                                   ELSE "unavailable",
                         !.phase = IF gpio_initialized THEN "trigger"
                                   ELSE "pause"]
            /\ UNCHANGED << pc, cancelled >>
    /\ UNCHANGED << ctlVars, audioVars, ret, mode, done, utt, cmd, said, heard,
                    parseVars, cad, svc >>

\* measure_distance lines 90-94: the three writes of the trigger pulse
UslTrigger ==
    /\ Alive /\ usl.phase = "trigger"
    /\ usl' = IF HandleUsable THEN [usl EXCEPT !.phase = "echo"]
              ELSE [usl EXCEPT !.phase = "pause", !.cause = "error"]
    /\ UNCHANGED << ctlVars, audioVars, threadVars, parseVars, cancelled, cad, svc >>

\* measure_distance lines 100-121: the reads of the echo pin and the
\* distance; main.py line 235: alert_by_distance chooses the beeps
UslEcho(o) ==
    /\ Alive /\ usl.phase = "echo" /\ o.kind # "unavailable"
    /\ LET r == IF HandleUsable THEN measure_distance(o, TRUE) ELSE << >>
           b == alert_by_distance(r)
       IN  usl' = [usl EXCEPT
                     !.distance = r,
                     !.cause = IF HandleUsable THEN SampleCause(o, TRUE)
                               ELSE "error",
                     !.beeps = b, !.left = b,
                     !.phase = IF b > 0 THEN "beep" ELSE "pause"]
    /\ UNCHANGED << ctlVars, audioVars, threadVars, parseVars, cancelled, cad, svc >>

\* beep lines 162-167: self.initialized is read; when set, the buzzer pin is
\* written 1 and the call sleeps for the duration
UslBeepOn ==
    /\ Alive /\ usl.phase = "beep"
    /\ usl' = IF gpio_initialized /\ HandleUsable
              THEN [usl EXCEPT !.phase = "beeping"]
              ELSE [usl EXCEPT !.left = @ - 1,
                               !.phase = IF usl.left > 1 THEN "beep" ELSE "pause"]
    /\ UNCHANGED << ctlVars, audioVars, threadVars, parseVars, cancelled, cad, svc >>

\* beep line 169: the sleep is over, the buzzer pin is written 0
UslBeepOff ==
    /\ Alive /\ usl.phase = "beeping"
    /\ usl' = [usl EXCEPT !.left = @ - 1,
                          !.phase = IF usl.left > 1 THEN "beep" ELSE "pause"]
    /\ UNCHANGED << ctlVars, audioVars, threadVars, parseVars, cancelled, cad, svc >>

\* main.py lines 238-242: the warning test, last_warning_time, the pause
UslPause ==
    /\ Alive /\ usl.phase = "pause"
    /\ LET due == warning_due(usl.distance, usl.now, usl.last_warning_time)
       IN  usl' = [usl EXCEPT
                     !.phase = "top", !.now = @ + SamplePause,
                     !.warned = due,
                     !.prev_warning_time = usl.last_warning_time,
                     !.last_warning_time = IF due THEN usl.now ELSE @,
                     !.spoken_at = IF due THEN usl.now ELSE @]
    /\ UNCHANGED << ctlVars, audioVars, threadVars, parseVars, cancelled, cad, svc >>

NextRelease ==
    \/ UslEnter
    \/ UslTrigger
    \/ \E o \in LoopOutcomes : UslEcho(o)
    \/ UslBeepOn
    \/ UslBeepOff
    \/ UslPause
    \/ Signal
    \/ \E t \in Runners : SdClear(t)
    \/ \E t \in Runners : SdVoice(t)
    \/ \E t \in Runners : SdStop(t)
    \/ \E t \in Runners : SdChk(t)
    \/ \E t \in Runners : SdGpio(t)
    \/ \E t \in Runners : SdExit(t)

SpecRelease == InitUltrasonic /\ [][NextRelease]_vars

\* the buzzer tiers alone: alert_by_distance applied to every sample the
\* sensor can give while guidance runs
InitAlert ==
    /\ InitGuiding
    /\ cad = CadIdle
    /\ usl = [UslIdle EXCEPT !.phase = "alert"]

NextAlert == \E o \in SensorOutcomes : AlertSample(o)

SpecAlert == InitAlert /\ [][NextAlert]_vars

-----------------------------------------------------------------------------
\* The router alone: parse_command applied to transcripts built from the
\* trigger phrases, case variants of them, and words that match nothing

\* the voice commands of the usage documentation (main.py docstring), each
\* with the action documented for it, named as COMMANDS names it
DocumentedCommands ==
    << [said |-> <<"H","i"," ","S","i","r","i">>, kind |-> "activate"],
       [said |-> <<"G","u","i","d","e"," ","m","e">>, kind |-> "guide"],
       [said |-> <<"S","t","o","p"," ","g","u","i","d","a","n","c","e">>,
        kind |-> "stop_guide"],
       [said |-> <<"R","e","a","d"," ","t","e","x","t">>, kind |-> "read_text"],
       [said |-> <<"D","e","s","c","r","i","b","e">>, kind |-> "describe"],
       [said |-> <<"C","h","a","t">>, kind |-> "chat"],
       [said |-> <<"S","y","s","t","e","m"," ","e","x","i","t">>, kind |-> "exit"] >>

Fragments ==
    { DocumentedCommands[i].said : i \in 1..Len(DocumentedCommands) }
    \cup
    { COMMANDS[i].phrases[j] :
        << i, j >> \in { ij \in (1..Len(COMMANDS)) \X (1..4) :
                           ij[2] <= Len(COMMANDS[ij[1]].phrases) } }
    \cup
    { <<"H","i"," ","S","i","r","i">>,
      <<"G","U","I","D","E"," ","M","E">>,
      <<"S","t","o","p"," ","G","u","i","d","a","n","c","e">>,
      <<"R","e","a","d"," ","t","e","x","t">>,
      <<"D","e","s","c","r","i","b","e">>,
      <<"C","h","a","t">>,
      <<"S","y","s","t","e","m"," ","e","x","i","t">>,
      <<"E","X","I","T"," ","C","H","A","T">>,
      <<"b","a","n","a","n","a">>,
      <<"o","b","s","c","e","n","e">>,
      <<"m","e","d","i","o","c","r","e">>,
      <<"p","l","e","a","s","e">>,
      << >> }

Transcripts ==
    Fragments
    \cup { a \o << " " >> \o b : a \in Fragments, b \in Fragments }
    \cup { << " " >> \o a \o << " ", " " >> : a \in Fragments }

\* _process_audio line 159 on the transcript under test
PParse ==
    /\ p_result[1] = "pending"
    /\ p_result' = parse_command(p_transcript)
    /\ UNCHANGED << ctlVars, audioVars, threadVars, p_transcript, cancelled, timeVars, svc >>

\* the next transcript to test
PNext ==
    /\ p_result[1] # "pending"
    /\ p_transcript' \in Transcripts
    /\ p_result' = << "pending", << >> >>
    /\ UNCHANGED << ctlVars, audioVars, threadVars, cancelled, timeVars, svc >>

InitParse ==
    /\ InitProgram
    /\ p_transcript \in Transcripts
    /\ p_result = << "pending", << >> >>

NextParse ==
    \/ PParse
    \/ PNext

SpecParse == InitParse /\ [][NextParse]_vars

-----------------------------------------------------------------------------
\* What the claims speak about

\* the guidance loops and ultrasonic loops that have started and not ended
LiveGuidance == { g \in GLoops : pc[g] # "none" }
LiveUltrasonic == { u \in ULoops : pc[u] # "none" }

\* the recognition tasks inside handle_voice_command (entered, not returned)
InHandler == { h \in Handlers : pc[h] \notin {"none", "h_call", "h_ret"} }

\* the number of player subprocesses running
PlayersRunning ==
    Cardinality({ t \in Threads : proc[t] = "running" }) + (IF orphan THEN 1 ELSE 0)

\* recognition task h takes the step that enters handle_voice_command
Dispatches(h) == pc[h] = "h_call" /\ pc'[h] # "h_call"

ExitChatPhrases ==
    LET i == CHOOSE k \in 1..Len(COMMANDS) : COMMANDS[k].kind = "exit_chat"
    IN  { COMMANDS[i].phrases[j] : j \in 1..Len(COMMANDS[i].phrases) }

IsPrefix(a, b) == Len(a) <= Len(b) /\ a = SubSeq(b, 1, Len(a))

-----------------------------------------------------------------------------
\* C1: in every reachable state there is at most one live guidance loop and
\* at most one live ultrasonic loop, whatever commands were applied.
C1_AtMostOneLoopOfEachKind ==
    /\ Cardinality(LiveGuidance) <= 1
    /\ Cardinality(LiveUltrasonic) <= 1

\* C2: at no time are two invocations of handle_voice_command executing.
C2_CommandsSerialized == Cardinality(InHandler) <= 1

\* C3: at most one playback subprocess is running at any moment.
C3_OnePlayerAtATime == PlayersRunning <= 1

\* C4: when Guide has been applied twice with no StopGuide (the first one
\* spoke the start message, guidance is active, both have returned), exactly
\* one guidance loop and exactly one ultrasonic loop are live.
C4_GuideTwiceOneLoopEach ==
    \A h1 \in Handlers : \A h2 \in Handlers \ {h1} :
        ( /\ pc[h1] = "h_ret" /\ cmd[h1] = "guide" /\ said[h1] = "guidance_start"
          /\ pc[h2] = "h_ret" /\ cmd[h2] = "guide"
          /\ guidance_active )
        => ( Cardinality(LiveGuidance) = 1 /\ Cardinality(LiveUltrasonic) = 1 )

\* C5: a recognized exit-chat phrase, routed by parse_command and applied
\* while the system is active and in chat mode, sets chat_active false and
\* speaks the chat-end message.
C5_ExitChatPhraseEndsChat ==
    [][ \A h \in Handlers :
          ( /\ Dispatches(h)
            /\ Strip(Lower(Utterances[utt[h]])) \in ExitChatPhrases
            /\ system_active /\ chat_active )
          => ( chat_active' = FALSE /\ said'[h] = "chat_end" ) ]_vars

\* The routing rule stated without the scan: p occurs in s, s without its
\* outer blanks, the kinds with a phrase in the transcript, the first of them
Occurs(p, s) ==
    \E i \in 1..(Len(s) - Len(p) + 1) : SubSeq(s, i, i + Len(p) - 1) = p
Trimmed(s) ==
    IF \A i \in 1..Len(s) : s[i] = " " THEN << >>
    ELSE LET first == CHOOSE i \in 1..Len(s) :
                        s[i] # " " /\ \A k \in 1..(i - 1) : s[k] = " "
             last == CHOOSE i \in 1..Len(s) :
                        s[i] # " " /\ \A k \in (i + 1)..Len(s) : s[k] = " "
         IN  SubSeq(s, first, last)
MatchingKinds(t) ==
    { i \in 1..Len(COMMANDS) :
        \E j \in 1..Len(COMMANDS[i].phrases) :
            Occurs(COMMANDS[i].phrases[j], Trimmed(Lower(t))) }
FirstMatchingKind(t) ==
    IF MatchingKinds(t) = {} THEN "None"
    ELSE COMMANDS[CHOOSE i \in MatchingKinds(t) :
                    \A k \in MatchingKinds(t) : i <= k].kind
\* C6: parse_command returns the first command kind, in COMMANDS order, one
\* of whose phrases occurs in the lower-cased, trimmed transcript, or None
\* when none occurs, paired with the unmodified transcript; and applying it
\* changes no state of the program.
C6_ParseCommandFirstMatch ==
    /\ InitProgram
    /\ p_result[1] # "pending"
         => p_result = << FirstMatchingKind(p_transcript), p_transcript >>

\* C6 witness: a transcript with capital letters that matches phrases of two
\* kinds has been routed to the earlier one
C6_Witness ==
    /\ p_result[1] \notin {"pending", "None"}
    /\ Cardinality(MatchingKinds(p_transcript)) >= 2
    /\ p_transcript # Lower(p_transcript)

\* C7: while system_active is false, a command other than Activate is
\* ignored: applying it only returns, and changes nothing else.
C7_InactiveCommandsIgnored ==
    [][ \A h \in Handlers :
          ( Dispatches(h) /\ ~system_active /\ cmd[h] # "activate" )
          => ( /\ pc' = [pc EXCEPT ![h] = "h_ret"]
               /\ UNCHANGED << ctlVars, audioVars, ret, mode, done, utt, cmd,
                               said, heard >> ) ]_vars

\* C7 witness: Guide was applied in Standby and has returned
C7_Witness ==
    \E h \in Handlers :
        /\ pc[h] = "h_ret" /\ cmd[h] = "guide" /\ said[h] = "nothing"
        /\ ~system_active /\ ~guidance_active /\ LiveGuidance = {}

\* C8: every run of shutdown() does its steps in the order clear events,
\* stop listening, audio.stop(), release GPIO, and reaches sys.exit(0) only
\* after all of them; the effects of the steps done are in place.
C8_ShutdownOrder ==
    /\ \A t \in Runners :
         /\ IsPrefix(done[t], ShutdownOrder)
         /\ pc[t] = "sd_exit" => done[t] = ShutdownOrder
         /\ Len(done[t]) >= 1 => ~running
         /\ Len(done[t]) >= 2 => ~voice_running
         /\ Len(done[t]) >= 4 => (~gpio_open /\ ~gpio_initialized)
    /\ exit_status = "exit0" => done[Main] = ShutdownOrder

\* C8 witness: the process has left through sys.exit(0)
C8_Witness == exit_status = "exit0" /\ pc[Main] = "exited"

\* C9: once shutdown has been triggered the process ends with the GPIO
\* handle released, whatever the workers and the speech output are doing.
C9_ExitReleasesGpio ==
    ( exit_status # "alive" /\ mode # "none" ) => ~gpio_open

\* thread t is inside _speak_sync; a runner is inside stop(), past line 120;
\* a runner's stop() returns; an utterance's _speak_sync starts
InSpeak(t) == pc[t] \in {"sp_synth", "sp_poll", "sp_finally", "sp_raise"}
StopCalled == \E r \in Runners : pc[r] = "sd_chk"
StopReturns ==
    \E r \in Runners : pc[r] \in {"sd_chk", "sd_term"} /\ pc'[r] = "sd_gpio"
SpeakStarts == \E t \in Threads : ~InSpeak(t) /\ pc'[t] = "sp_synth"
\* C10: stop() sets the interrupt flag; when it returns is_busy() is false,
\* and is_speaking becomes true again only when a _speak_sync starts; and a
\* blocking speak() that was in progress (synthesis or playback) when
\* stop() was called returns, as long as the process lives and no later
\* speak() has cleared the flag that stop() set.
C10_StopReleasesSpeak ==
    /\ [][ (\E r \in Runners : pc[r] = "sd_stop" /\ pc'[r] # "sd_stop")
             => interrupt_flag' ]_vars
    /\ [][ StopReturns => ~is_speaking' ]_vars
    /\ [][ (~is_speaking /\ is_speaking') => SpeakStarts ]_vars
    /\ \A t \in Threads \ Speakers :
         ( StopCalled /\ pc[t] \in {"sp_synth", "sp_poll"} )
           ~> ( ~InSpeak(t) \/ ~interrupt_flag \/ ~Alive )

\* C10 witness: stop() has returned while a recognition task's blocking
\* speak() is still inside _speak_sync, and is_busy() is false
C10_Witness ==
    \E r \in Runners : \E t \in Handlers \ {r} :
        /\ pc[r] = "sd_gpio" /\ pc[t] \in {"sp_synth", "sp_poll"}
        /\ interrupt_flag /\ ~is_speaking

\* C11: a loop that was live when StopGuide was applied finds the guidance
\* event cleared when it next polls it, and so exits, whatever commands
\* are applied afterwards.
C11_CancelledLoopsExit ==
    \A t \in cancelled :
        pc[t] \in {"g_top", "u_top"} => ~(events["running"] /\ events["guidance"])

\* C12: in every reachable state guidance_active implies system_active and
\* chat_active implies system_active.
C12_ModesImplyActive ==
    /\ guidance_active => system_active
    /\ chat_active => system_active

\* C12 witness: guidance was started and the process has since shut down
C12_Witness == guidance_active /\ system_active /\ exit_status = "exit0"

\* recognition task h applies StopGuide while the system is active and no
\* guidance is active
StopGuideWhenIdle(h) ==
    /\ Dispatches(h) /\ cmd[h] = "stop_guide" /\ system_active
    /\ ~guidance_active /\ ~events["guidance"]

\* C13: StopGuide applied while the system is active and no guidance is
\* active only returns: no error, guidance_active stays false, every other
\* variable and event is unchanged, and nothing else happens (nothing is
\* spoken).
C13_StopGuideIdleNoEffect ==
    [][ \A h \in Handlers :
          StopGuideWhenIdle(h)
          => ( /\ pc' = [pc EXCEPT ![h] = "h_ret"]
               /\ UNCHANGED << ctlVars, audioVars, ret, mode, done, utt, cmd,
                               said, heard >> ) ]_vars

\* C15: no failure inside speak() reaches the caller: whatever the failure
\* kind, no _speak_sync ends with an exception pending, and when its finally
\* block has run the caller continues where speak() returns, with
\* is_speaking false and current_process cleared.
C15_SpeakFailuresContained ==
    /\ [](\A t \in Threads : pc[t] # "sp_raise")
    /\ [][ \A t \in Threads :
             ( pc[t] \in {"sp_finally", "sp_raise"} /\ pc'[t] # pc[t] )
             => ( /\ pc'[t] = ret[t] /\ exit_status' = exit_status
                  /\ ~is_speaking' /\ current_process' = NoProcess ) ]_vars

\* C14: Activate applied when system_active is already true adds nothing:
\* the state after it is the state before it, and nothing is spoken.
C14_ActivateIdempotent ==
    [][ \A h \in Handlers :
          ( Dispatches(h) /\ cmd[h] = "activate" /\ system_active )
          => ( /\ pc' = [pc EXCEPT ![h] = "h_ret"]
               /\ UNCHANGED << ctlVars, audioVars, ret, mode, done, utt, cmd,
                               said, heard >> ) ]_vars

\* C16: every voice command of the usage documentation, passed to
\* parse_command, is routed to the action documented for it.
C16_DocumentedCommandsRoute ==
    \A i \in 1..Len(DocumentedCommands) :
        ( p_result[1] # "pending" /\ p_transcript = DocumentedCommands[i].said )
        => p_result[1] = DocumentedCommands[i].kind

\* no utterance is in flight: no thread is inside speak() or _speak_sync
NoUtterance == \A t \in Threads : ~InSpeak(t) /\ pc[t] # "sp_begin"
\* a speak() call with non-blank text is made in this step
SpeakCalled ==
    \E t \in Threads :
        \/ ~InSpeak(t) /\ pc'[t] = "sp_synth" /\ pc[t] # "sp_begin"
        \/ pc[t] # "sp_begin" /\ pc'[t] = "sp_begin"

\* C17: with no utterance in flight is_speaking is false and current_process
\* empty; a stop() called then sets the interrupt flag, raises nothing and
\* leaves both as they are; and it does not reach a later utterance: every
\* speak() call clears the flag, which only a stop() sets, so a speak()
\* made after the stop() plays until it ends or a new stop() is called.
C17_IdleStopIsNoOp ==
    /\ [](NoUtterance => (~is_speaking /\ current_process = NoProcess))
    /\ [][ \A r \in Runners :
             ( NoUtterance /\ pc[r] \in {"sd_stop", "sd_chk"} /\ pc'[r] # pc[r] )
             => ( /\ pc'[r] = IF pc[r] = "sd_stop" THEN "sd_chk" ELSE "sd_gpio"
                  /\ pc[r] = "sd_stop" => interrupt_flag'
                  /\ ~is_speaking' /\ current_process' = NoProcess
                  /\ UNCHANGED << proc, orphan, exit_status >> ) ]_vars
    /\ [][ SpeakCalled => ~interrupt_flag' ]_vars
    /\ [][ (~interrupt_flag /\ interrupt_flag')
             => \E r \in Runners : pc[r] = "sd_stop" /\ pc'[r] = "sd_chk" ]_vars

\* C17 witness: stop() ran, inside a signal's shutdown, while the only
\* command heard was still waiting to be applied; that command's speak() was
\* made afterwards and its player runs with the interrupt flag clear
C17_Witness ==
    /\ pc[Main] \in {"sd_gpio", "sd_exit"} /\ mode = "signal" /\ heard = 1
    /\ \E h \in Handlers :
         /\ pc[h] = "sp_poll" /\ proc[h] = "running" /\ current_process = h
         /\ ~interrupt_flag

\* C18: the guidance loop issues its narration as a non-blocking request:
\* the guidance thread itself is never inside _speak_sync, where it would
\* wait for the synthesis and the playback before it computes its sleep
\* time and reads the cancellation signal again.
C18_NarrationNonBlocking == \A g \in GLoops : ~InSpeak(g)

\* C19: in every guidance cycle sleep_time is CAPTURE_INTERVAL - elapsed when
\* processing took less than CAPTURE_INTERVAL and zero otherwise, never
\* negative; and when the sleep was not cut by a cancellation the next
\* capture begins CAPTURE_INTERVAL (plus at most one slice's overshoot) after
\* the previous one in the first case, and at once, with no sleep slice, in
\* the second, so never sooner than CAPTURE_INTERVAL after the previous one.
C19_GuidanceCadence ==
    /\ cad.n >= 1 =>
         /\ cad.sleep_time >= 0
         /\ cad.elapsed < CAPTURE_INTERVAL
              => cad.sleep_time = CAPTURE_INTERVAL - cad.elapsed
         /\ cad.elapsed >= CAPTURE_INTERVAL => cad.sleep_time = 0
         /\ (cad.phase = "top" /\ cad.elapsed >= CAPTURE_INTERVAL)
              => (cad.slices = 0 /\ cad.now = cad.start_time + cad.elapsed)
    /\ (cad.n >= 2 /\ ~cad.prev_cut) =>
         /\ cad.start_time - cad.prev_start >= CAPTURE_INTERVAL
         /\ cad.prev_elapsed < CAPTURE_INTERVAL
              => cad.start_time - cad.prev_start <= CAPTURE_INTERVAL + MaxOvershoot
         /\ cad.prev_elapsed >= CAPTURE_INTERVAL
              => cad.start_time - cad.prev_start = cad.prev_elapsed

\* C19 witness: a cycle whose processing took 1.0 s was followed by the next
\* capture 3.0 s after its own, and that one, taking 3.5 s, has just ended
\* with a sleep time of zero
C19_Witness ==
    /\ cad.n >= 2 /\ ~cad.prev_cut
    /\ cad.prev_elapsed = 10 /\ cad.start_time - cad.prev_start = CAPTURE_INTERVAL
    /\ cad.elapsed = 35 /\ cad.sleep_time = 0

\* C20: in one run of the ultrasonic loop a sample gives a spoken warning
\* exactly when it measured a distance below 20 and either no warning was
\* spoken before in this run or at least 3 s have passed since the previous
\* one.
C20_WarningExactlyWhenDue ==
    usl.n >= 1 =>
        ( usl.warned <=>
            /\ usl.distance # << >>
            /\ usl.distance[1] < 20
            /\ \/ usl.prev_warning_time = 0
               \/ usl.sampled_at - usl.prev_warning_time >= 30 )

\* C21: alert_by_distance puts every valid distance into exactly one tier:
\* below 15 two buzzer pulses, from 15 up to but not including 30 exactly
\* one pulse, from 30 on no pulse.
C21_AlertTiers ==
    (usl.phase = "alert" /\ usl.distance # << >>) =>
        /\ usl.distance[1] < 15 => usl.beeps = 2
        /\ (15 <= usl.distance[1] /\ usl.distance[1] < 30) => usl.beeps = 1
        /\ usl.distance[1] >= 30 => usl.beeps = 0

\* C21 witness: the boundary distance 15 has been classified, with one pulse
C21_Witness ==
    usl.phase = "alert" /\ usl.distance = << 15 >> /\ usl.beeps = 1

\* C22: a sample for which measure_distance returns None (GPIO unavailable,
\* echo timeout, reading outside 2..400 cm, or a driver exception) makes no
\* buzzer pulse and no spoken warning, leaves last_warning_time as it was,
\* and leaves the ultrasonic loop running at the top of its next cycle.
C22_FailedSampleIsSilent ==
    [][ (usl'.n = usl.n + 1 /\ usl'.phase = "top" /\ usl'.cause # "ok") =>
            /\ usl'.distance = << >>
            /\ usl'.beeps = 0
            /\ ~usl'.warned
            /\ usl'.last_warning_time = usl.last_warning_time
            /\ pc'[TimedMonitor] = "u_top" ]_vars

\* C22 witness: after a spoken warning a sample out of the sensor's range
\* has been taken, and the loop is at the top of its next cycle
C22_Witness ==
    /\ usl.phase = "top" /\ usl.n >= 2 /\ usl.cause = "range"
    /\ usl.last_warning_time # 0 /\ ~usl.warned
    /\ pc[TimedMonitor] = "u_top"

\* the navigation results of the model that contain "no obstacle" in some
\* mix of upper and lower case
NoObstacleResults ==
    { <<"N","o"," ","o","b","s","t","a","c","l","e"," ","a","h","e","a","d",
        ".">>,
      <<"C","l","e","a","r",","," ","n","o"," ","o","b","s","t","a","c","l",
        "e","s",".">>,
      <<"N","O"," ","O","B","S","T","A","C","L","E">> }

\* C23: in each guidance cycle the navigation result is passed to speak() if
\* and only if a frame was captured and the result is not empty and does not
\* contain "no obstacle" in any case; when the capture fails no analysis is
\* requested, speak() is not called, and the loop goes on to its sleep and
\* stays alive.
C23_NarrationRule ==
    /\ [] ( cad.n >= 1 =>
              /\ cad.spoke <=> ( /\ cad.frame = "frame"
                                 /\ cad.result # << >>
                                 /\ cad.result \notin NoObstacleResults )
              /\ cad.frame = "None" => (cad.posts = 0 /\ ~cad.spoke) )
    /\ [][ (cad'.n = cad.n + 1 /\ cad'.frame = "None") =>
              (cad'.phase = "sleep" /\ pc'[TimedLoop] = "g_top") ]_vars

\* C23 witness: a cycle with a captured frame and the result "No obstacle
\* ahead." spoke nothing, and the loop is back at the top of a cycle
C23_Witness ==
    /\ cad.n >= 1 /\ cad.phase = "top" /\ cad.frame = "frame"
    /\ cad.result \in NoObstacleResults /\ cad.result # NoObstacle
    /\ ~cad.spoke /\ cad.posts = 1

\* C24: a transcript with command_type None is forwarded to the chat handler
\* exactly when system_active and chat_active are both true; with chat_active
\* false handling it changes nothing but the position of its own task; and
\* a transcript classified as a command is never forwarded as a chat turn.
C24_UnmatchedToChatOnlyInChat ==
    [][ \A h \in Handlers :
          (pc[h] = "h_call" /\ pc'[h] # "h_call") =>
            /\ cmd[h] = "None" =>
                 ( (said'[h] = "chat_reply" /\ svc'.op[h].posts # << >>)
                     <=> (system_active /\ chat_active) )
            /\ (cmd[h] = "None" /\ ~chat_active) =>
                 /\ pc' = [pc EXCEPT ![h] = "h_ret"]
                 /\ UNCHANGED << ctlVars, audioVars, ret, mode, done, utt, cmd,
                                 said, heard, cancelled, svc >>
            /\ cmd[h] # "None" =>
                 (said'[h] # "chat_reply" /\ svc'.op[h] = svc.op[h]) ]_vars

\* C24 witness: in chat mode an unmatched transcript has been forwarded, its
\* chat request posted and its reply handed to speak()
C24_Witness ==
    \E h \in Handlers :
        /\ cmd[h] = "None" /\ said[h] = "chat_reply"
        /\ system_active /\ chat_active
        /\ svc.op[h].posts # << >>

\* a step of recognition task h that returns from read_text or describe_scene
\* (main.py lines 250-257, 263-270)
OneShotReturns(h) == pc[h] = "h_cap" /\ pc'[h] # "h_cap"

\* C25: ReadText and Describe are one-shot: when the capture succeeds exactly
\* one analysis is requested, of the mode matching the command (ocr for
\* ReadText, describe for Describe), with one request at most sent for it,
\* and its result is passed to speak(); when the capture fails no analysis
\* is requested and the camera-error message is spoken; in both cases
\* system_active, guidance_active, chat_active and the events are unchanged
\* and no loop or speaker thread is started.
C25_OneShotActions ==
    [][ \A h \in Handlers :
          OneShotReturns(h) =>
            /\ cmd[h] \in {"read_text", "describe"}
            /\ svc'.op[h].frame = "frame" =>
                 /\ svc'.op[h].asked =
                        << IF cmd[h] = "read_text" THEN "ocr" ELSE "describe" >>
                 /\ Len(svc'.op[h].posts) <= 1
                 /\ \A i \in 1..Len(svc'.op[h].posts) :
                        svc'.op[h].posts[i].prompt = svc'.op[h].asked[1]
                 /\ said'[h] = IF cmd[h] = "read_text" THEN "ocr_result"
                               ELSE "describe_result"
            /\ svc'.op[h].frame # "frame" =>
                 /\ svc'.op[h].frame = "None"
                 /\ svc'.op[h].asked = << >> /\ svc'.op[h].posts = << >>
                 /\ said'[h] = "error_camera"
            /\ UNCHANGED << running, system_active, guidance_active, chat_active,
                            events >>
            /\ \A t \in GLoops \cup ULoops \cup Speakers : pc'[t] = pc[t] ]_vars

\* C25 witness: a Describe command has captured a frame, asked for one
\* describe analysis, posted its request and handed the result to speak()
C25_Witness ==
    \E h \in Handlers :
        /\ cmd[h] = "describe" /\ said[h] = "describe_result"
        /\ svc.op[h].frame = "frame" /\ svc.op[h].asked = << "describe" >>
        /\ Len(svc.op[h].posts) = 1

\* a step in which recognition task h runs handle_chat_input up to its
\* speak(result) (main.py lines 287-291)
ChatTurnStarts(h) ==
    /\ pc[h] = "h_call" /\ system_active /\ is_chat_input(cmd[h])
    /\ pc'[h] # "h_call"

\* a step in which recognition task h returns from the speak(result) of
\* handle_chat_input
ChatTurnReturns(h) ==
    /\ said[h] = "chat_reply" /\ pc[h] \in {"sp_finally", "sp_raise"}
    /\ pc'[h] = "h_ret"

C27_NoRequestWithoutCredentials ==
    ~svc.initialized =>
        \A h \in Handlers :
            /\ svc.op[h].posts = << >>
            /\ svc.op[h].asked # << >> =>
                   svc.op[h].text \in {AnalyzeApology, ChatApology}

\* C28: every capture_frame call releases the camera device before it
\* returns, on every path (frame read, device not opened, read failed,
\* exception), so no camera handle is open between the captures of the
\* start-up test, the guidance loop, the one-shot commands and the chat
\* handler.
C28_NoCameraHandleKept ==
    /\ svc.handles = 0
    /\ \A c \in CameraOutcomes :
           capture_frame(c).released = capture_frame(c).opened

\* C28 witness: a one-shot command's capture has returned None and no camera
\* handle is open
C28_Witness ==
    /\ svc.handles = 0
    /\ \E h \in Handlers : svc.op[h].frame = "None" /\ said[h] = "error_camera"

\* the session state: the mode flags, running and the three events
sessionVars == << system_active, guidance_active, chat_active, running, events >>

\* a step taken by the thread of a guidance loop, of an ultrasonic loop or of
\* a warning the ultrasonic loop started
LoopStep ==
    \/ \E t \in GLoops \cup ULoops \cup Speakers :
           pc[t] # "none" /\ pc'[t] # pc[t]
    \/ \E t \in Speakers : pc[t] = "none" /\ pc'[t] = "sp_begin"

\* a step taken by the main thread (run, the signal handler, shutdown) or by
\* a recognition task (handle_voice_command, shutdown)
ControlStep ==
    \E t \in Runners : pc'[t] # pc[t] \/ done'[t] # done[t]

\* C29: the guidance loop and the ultrasonic loop only read the session
\* state: no step of either loop changes system_active, guidance_active,
\* chat_active, running or an event; every step that changes one of them
\* is a step of the main thread (run and shutdown) or of a recognition task
\* handling a command or running shutdown.
C29_LoopsOnlyReadSession ==
    [][ /\ LoopStep => UNCHANGED sessionVars
        /\ ~(UNCHANGED sessionVars) => ControlStep ]_vars

\* C29 witness: a guidance loop is playing a narration and a warning of the
\* ultrasonic loop is being spoken while the session is still guiding
C29_Witness ==
    /\ running /\ system_active /\ guidance_active
    /\ events["running"] /\ events["guidance"]
    /\ \E g \in GLoops : pc[g] = "sp_poll"
    /\ \E t \in Speakers : pc[t] \in {"sp_synth", "sp_poll"}

\* shutdown() has started: run() has set running (line 295) and the first
\* statement of shutdown (line 328) has reset it
ShutdownStarted == pc[Main] # "m_init" /\ ~running

\* C30: terminating is absorbing: once shutdown() has started, no later
\* handle_voice_command call changes system_active, guidance_active or
\* chat_active, sets an event, starts a loop or speaker thread or calls
\* speak(); the call returns having done nothing.
C30_TerminatingIsAbsorbing ==
    [][ \A h \in Handlers :
          (ShutdownStarted /\ pc[h] = "h_call" /\ pc'[h] # "h_call") =>
             /\ UNCHANGED << system_active, guidance_active, chat_active,
                             events >>
             /\ \A t \in GLoops \cup ULoops \cup Speakers : pc'[t] = pc[t]
             /\ said'[h] = said[h]
             /\ pc'[h] = "h_ret" ]_vars

\* C31: whenever no command handler is in the middle of executing,
\* guidance_active equals the state of the guidance event and chat_active
\* equals the state of the chat event, in every reachable state, those
\* after shutdown() has run included.
C31_FlagsMatchEvents ==
    InHandler = {} =>
        /\ guidance_active = events["guidance"]
        /\ chat_active = events["chat"]

\* C32: when stop() returns, every utterance that was in flight when it was
\* called is cut short: with the interrupt flag still as stop() set it (no
\* speak() has been issued since), a player subprocess still running is the
\* one its thread's wait loop polls, so that the next turn of the loop
\* terminates it, and none runs unmonitored, however many utterances were in
\* flight.
C32_StopCutsEveryUtterance ==
    [][ ( StopReturns /\ interrupt_flag )
        => ( /\ \A t \in Threads :
                  proc'[t] = "running"
                  => ( pc'[t] = "sp_poll" /\ current_process' = t )
             /\ ~orphan' ) ]_vars

\* a step of the ultrasonic loop that reads or writes a pin through the GPIO
\* handle: the trigger writes, the echo reads, the buzzer writes
GpioAccess ==
    /\ usl.phase \in {"trigger", "echo", "beep", "beeping"}
    /\ usl'.phase # usl.phase
    /\ usl.phase = "beep" => usl'.phase = "beeping"

\* C33: after gpio.cleanup() has released the GPIO handle during shutdown, no
\* ultrasonic loop still running reads or writes a pin through that handle:
\* every trigger write, echo read and buzzer write finds the handle open.
C33_NoGpioAccessAfterRelease ==
    [][ GpioAccess => gpio_open ]_vars

\* C34: the shutdown sequence runs at most once per process, whether begun by
\* the Exit command, by a signal or by the main loop ending: shutdown()
\* resets running only once, and stop_listening() and gpio.cleanup() are
\* never executed again once they have been executed.
C34_ShutdownRunsOnce ==
    [][ \A t \in Runners :
          /\ (pc[t] = "sd_clear" /\ pc'[t] # "sd_clear") => running
          /\ (pc[t] = "sd_voice" /\ pc'[t] # "sd_voice") => voice_running
          /\ (pc[t] = "sd_gpio" /\ pc'[t] # "sd_gpio") => gpio_open ]_vars

\* C35: over the whole session, StopGuide followed by Guide included, any two
\* spoken obstacle warnings are more than 3 s apart: a sample that gives a
\* warning is taken more than WarnCooldown after the last warning spoken
\* before it, whichever loop spoke that one.
C35_WarningsSpacedOverSession ==
    [][ ( usl'.n = usl.n + 1 /\ usl'.warned /\ usl.spoken_at # 0 )
        => usl'.sampled_at - usl.spoken_at > WarnCooldown ]_vars

====
